---------------------------- MODULE Spec2Model ----------------------------
(***************************************************************************)
(* A model of XORNG core: the request router (Distributor), the sub-agent  *)
(* registry (SubAgentManager), the per-agent connection status machine     *)
(* (SubAgentConnection) and the per-request orchestration (XORNGCore).     *)
(*                                                                         *)
(* Strings that the code inspects character by character (the prompt and   *)
(* the keyword phrases) are sequences of one-character strings.            *)
(***************************************************************************)
EXTENDS Integers, Sequences, FiniteSets, TLC

(***************************************************************************)
(* Bounds of the model.                                                    *)
(***************************************************************************)
\* number of callTool calls a host keeps in flight on one connection
MaxOverlap == 1

\* direct tool calls in flight on one connection where calls overlap
MaxInFlight == 2

\* number of agents in the registry snapshot handed to the router
MaxAgents == 4

Min(a, b) == IF a < b THEN a ELSE b
Max(a, b) == IF a > b THEN a ELSE b
Range(s) == {s[i] : i \in DOMAIN s}

(***************************************************************************)
(* Distributor: intent classification.                                     *)
(***************************************************************************)
\* the intent catalog, in the insertion order of the Map
intentPatterns ==
  <<[intent |-> "code-review", patterns |->
       <<<<"r","e","v","i","e","w">>,
         <<"c","o","d","e"," ","q","u","a","l","i","t","y">>,
         <<"c","h","e","c","k">>,
         <<"l","i","n","t">>,
         <<"a","n","a","l","y","z","e"," ","c","o","d","e">>>>],
     [intent |-> "security", patterns |->
       <<<<"s","e","c","u","r","i","t","y">>,
         <<"v","u","l","n","e","r","a","b","i","l","i","t","y">>,
         <<"a","u","d","i","t">>,
         <<"s","e","c","u","r","e">>,
         <<"e","x","p","l","o","i","t">>>>],
     [intent |-> "standards", patterns |->
       <<<<"s","t","a","n","d","a","r","d">>,
         <<"c","o","n","v","e","n","t","i","o","n">>,
         <<"b","e","s","t"," ","p","r","a","c","t","i","c","e">>,
         <<"s","t","y","l","e"," ","g","u","i","d","e">>>>],
     [intent |-> "documentation", patterns |->
       <<<<"d","o","c","u","m","e","n","t">>,
         <<"e","x","p","l","a","i","n">>,
         <<"d","e","s","c","r","i","b","e">>,
         <<"h","o","w"," ","d","o","e","s">>,
         <<"w","h","a","t"," ","i","s">>>>],
     [intent |-> "api-reference", patterns |->
       <<<<"a","p","i">>,
         <<"e","n","d","p","o","i","n","t">>,
         <<"m","e","t","h","o","d">>,
         <<"p","a","r","a","m","e","t","e","r">>,
         <<"s","c","h","e","m","a">>>>],
     [intent |-> "build", patterns |->
       <<<<"b","u","i","l","d">>,
         <<"c","o","m","p","i","l","e">>,
         <<"b","u","n","d","l","e">>,
         <<"p","a","c","k","a","g","e">>>>],
     [intent |-> "test", patterns |->
       <<<<"t","e","s","t">>,
         <<"s","p","e","c">>,
         <<"c","o","v","e","r","a","g","e">>,
         <<"u","n","i","t"," ","t","e","s","t">>,
         <<"i","n","t","e","g","r","a","t","i","o","n">>>>],
     [intent |-> "refactor", patterns |->
       <<<<"r","e","f","a","c","t","o","r">>,
         <<"i","m","p","r","o","v","e">>,
         <<"o","p","t","i","m","i","z","e">>,
         <<"c","l","e","a","n"," ","u","p">>>>] >>

UpperToLower ==
  [c \in {"A","B","C","D","E","F","G","H","I","J","K","L","M","N","O","P","Q","R","S","T","U","V","W","X","Y","Z"} |->
    CASE c = "A" -> "a"
      [] c = "B" -> "b"
      [] c = "C" -> "c"
      [] c = "D" -> "d"
      [] c = "E" -> "e"
      [] c = "F" -> "f"
      [] c = "G" -> "g"
      [] c = "H" -> "h"
      [] c = "I" -> "i"
      [] c = "J" -> "j"
      [] c = "K" -> "k"
      [] c = "L" -> "l"
      [] c = "M" -> "m"
      [] c = "N" -> "n"
      [] c = "O" -> "o"
      [] c = "P" -> "p"
      [] c = "Q" -> "q"
      [] c = "R" -> "r"
      [] c = "S" -> "s"
      [] c = "T" -> "t"
      [] c = "U" -> "u"
      [] c = "V" -> "v"
      [] c = "W" -> "w"
      [] c = "X" -> "x"
      [] c = "Y" -> "y"
      [] c = "Z" -> "z"]

\* prompts used as inputs
PromptSecurityReview == <<"r","e","v","i","e","w"," ","t","h","i","s"," ","c","o","d","e"," ","f","o","r"," ","s","e","c","u","r","i","t","y"," ","i","s","s","u","e","s">>
PromptUnitTest == <<"R","u","n"," ","t","h","e"," ","u","n","i","t"," ","t","e","s","t">>
PromptHello == <<"h","e","l","l","o">>
PromptBuildApi == <<"B","u","i","l","d"," ","t","h","e"," ","a","p","i">>
PromptPleaseSecurityReview == <<"P","l","e","a","s","e"," ">> \o PromptSecurityReview
PromptAuditSecurityReview == <<"A","u","d","i","t",":"," ">> \o PromptSecurityReview
PromptCheck == <<"c","h","e","c","k">>

\* String.prototype.toLowerCase on a character sequence
toLowerCase(s) ==
  [i \in 1..Len(s) |-> IF s[i] \in DOMAIN UpperToLower THEN UpperToLower[s[i]] ELSE s[i]]

\* String.prototype.includes
includes(s, pat) ==
  \E i \in 0..(Len(s) - Len(pat)) : \A j \in 1..Len(pat) : s[i + j] = pat[j]

\* one point per keyword phrase found in the lower-cased prompt
patternScore(promptLower, patterns) ==
  Cardinality({k \in 1..Len(patterns) : includes(promptLower, patterns[k])})

RECURSIVE InsertByScoreStrict(_, _)
\* an insertion that puts a later intent before the earlier ones of its score
InsertByScoreStrict(sorted, d) ==
  IF sorted = << >> THEN <<d>>
  ELSE IF Head(sorted).score > d.score
       THEN <<Head(sorted)>> \o InsertByScoreStrict(Tail(sorted), d)
       ELSE <<d>> \o sorted

RECURSIVE InsertByScore(_, _)
InsertByScore(sorted, d) ==
  IF sorted = << >> THEN <<d>>
  ELSE IF Head(sorted).score >= d.score
       THEN <<Head(sorted)>> \o InsertByScore(Tail(sorted), d)
       ELSE <<d>> \o sorted

\* Array.prototype.sort((a, b) => b.score - a.score): stable, descending
RECURSIVE sortByScore(_)
sortByScore(ds) ==
  IF ds = << >> THEN << >>
  ELSE InsertByScore(sortByScore(SubSeq(ds, 1, Len(ds) - 1)), ds[Len(ds)])

RECURSIVE SumScores(_)
SumScores(ds) == IF ds = << >> THEN 0 ELSE Head(ds).score + SumScores(Tail(ds))

mapIntentToCapabilities(intent) ==
  CASE intent = "code-review"   -> <<"code-analysis", "linting">>
    [] intent = "security"      -> <<"security-scan", "vulnerability-detection">>
    [] intent = "standards"     -> <<"style-check", "best-practices">>
    [] intent = "documentation" -> <<"documentation-generation", "explanation">>
    [] intent = "api-reference" -> <<"api-analysis", "schema-parsing">>
    [] intent = "build"         -> <<"build-automation", "compilation">>
    [] intent = "test"          -> <<"test-execution", "coverage-analysis">>
    [] intent = "refactor"      -> <<"code-transformation", "optimization">>
    [] OTHER                    -> << >>

mapIntentToAgentType(intent) ==
  CASE intent \in {"code-review", "security", "standards"} -> "validator"
    [] intent \in {"documentation", "api-reference"}       -> "knowledge"
    [] intent \in {"build", "test", "refactor"}            -> "task"
    [] OTHER                                                -> "dynamic"

\* the confidence is a ratio; it is kept as numerator and denominator
classifyIntent(prompt) ==
  LET promptLower == toLowerCase(prompt)
      scored == [k \in 1..Len(intentPatterns) |->
                   [intent |-> intentPatterns[k].intent,
                    score  |-> patternScore(promptLower, intentPatterns[k].patterns)]]
      IsDetected(d) == d.score > 0
      detectedIntents == sortByScore(SelectSeq(scored, IsDetected))
  IN IF Len(detectedIntents) = 0
     THEN [primaryIntent |-> "general",
           secondaryIntents |-> << >>,
           requiredCapabilities |-> << >>,
           confidence |-> [num |-> 1, den |-> 2]]
     ELSE [primaryIntent |-> detectedIntents[1].intent,
           secondaryIntents |->
             [k \in 1..(Len(detectedIntents) - 1) |-> detectedIntents[k + 1].intent],
           requiredCapabilities |-> mapIntentToCapabilities(detectedIntents[1].intent),
           confidence |-> [num |-> detectedIntents[1].score,
                           den |-> Max(SumScores(detectedIntents), 1)]]

(***************************************************************************)
(* Distributor: agent selection and the routing decision.  An agent is the *)
(* SubAgent record the registry hands out: id, type, status, capabilities. *)
(***************************************************************************)
\* slice without the upper limit
sliceUnlimited(s, n) == s

\* Array.prototype.slice(0, n)
slice(s, n) == SubSeq(s, 1, Min(n, Len(s)))

selectAgents(allAgents, classification, preferredAgents, excludeAgents) ==
  LET IsAvailable(a) == a.id \notin excludeAgents /\ a.status # "disconnected"
      availableAgents == SelectSeq(allAgents, IsAvailable)
      IsPreferred(a) == a.id \in preferredAgents
      IsOther(a) == a.id \notin preferredAgents
      preferred == SelectSeq(availableAgents, IsPreferred)
      others == SelectSeq(availableAgents, IsOther)
      primaryType == mapIntentToAgentType(classification.primaryIntent)
      IsPrimaryType(a) == a.type = primaryType
      primaryAgents == SelectSeq(preferred \o others, IsPrimaryType)
      HasRequiredCapability(a) ==
        \E cap \in Range(classification.requiredCapabilities) : cap \in a.capabilities
      byCapability == SelectSeq(availableAgents, HasRequiredCapability)
      secondaryTypes ==
        {mapIntentToAgentType(classification.secondaryIntents[k]) :
           k \in 1..Len(classification.secondaryIntents)}
      IsSecondary(a) == a.type \in secondaryTypes /\ a \notin Range(primaryAgents)
      secondaryAgents == SelectSeq(availableAgents, IsSecondary)
  IN IF Len(primaryAgents) = 0
     THEN [primary |-> slice(byCapability, 2), secondary |-> << >>]
     ELSE [primary |-> slice(primaryAgents, 2), secondary |-> slice(secondaryAgents, 2)]

\* Math.ceil(n / 4)
ceilDiv4(n) == (n + 3) \div 4

\* a request context is NoContext or a record with its JSON length
NoContext == [present |-> FALSE, projectPath |-> "", currentFile |-> "", jsonLength |-> 0]

estimateTokens(request) ==
  ceilDiv4(Len(request.prompt))
    + (IF request.context.present THEN ceilDiv4(request.context.jsonLength) ELSE 0)
    + 500

generateMemoryQueries(request, classification) ==
  <<[kind |-> "prompt", arg |-> request.prompt]>>
    \o [k \in 1..Len(classification.requiredCapabilities) |->
          [kind |-> "capability-patterns", arg |-> classification.requiredCapabilities[k]]]
    \o (IF request.context.present /\ request.context.projectPath # ""
        THEN <<[kind |-> "project-patterns", arg |-> request.context.projectPath]>>
        ELSE << >>)
    \o (IF request.context.present /\ request.context.currentFile # ""
        THEN <<[kind |-> "file-context", arg |-> request.context.currentFile]>>
        ELSE << >>)

route(request, allAgents) ==
  LET classification == classifyIntent(request.prompt)
      sel == selectAgents(allAgents, classification,
                          request.preferredAgents, request.excludeAgents)
  IN [primaryAgents |-> [k \in 1..Len(sel.primary) |-> sel.primary[k].id],
      secondaryAgents |-> [k \in 1..Len(sel.secondary) |-> sel.secondary[k].id],
      memoryQueries |-> generateMemoryQueries(request, classification),
      estimatedTokens |-> estimateTokens(request),
      reasoning |-> [intent |-> classification.primaryIntent,
                     confidence |-> classification.confidence,
                     primaryCount |-> Len(sel.primary),
                     secondaryCount |-> Len(sel.secondary)]]

(***************************************************************************)
(* Memory tiers: the data.                                                 *)
(*                                                                         *)
(* The three tiers keep their keys on one Redis server under the prefixes  *)
(* xorng:stm:, xorng:ltm: and xorng:entity:.  A relevance is counted in    *)
(* hundredths (0..100), the clock in steps of half a TTL.  An entry id is  *)
(* a number: the order of the numbers is the lexicographic order of the    *)
(* UUID strings, which Redis uses to break ties in a sorted set.           *)
(***************************************************************************)
\* number of entries MemoryManager.store creates
MaxEntries == 2
\* number of get calls counted on the entries of the store
MaxGets == 2
\* last step of the clock
MaxTime == 3

\* ShortTermMemory.ttlSeconds, in clock steps
ttlSeconds == 2

\* number of entries stored where only store and search are called
MaxStored == 4

Tiers == {"short-term", "long-term", "entity"}
MemIds == 1..MaxEntries
\* the ids a key of the Redis server may carry
KeyIds == 1..Max(MaxEntries, MaxStored)
\* the two callers that may have a memory operation in flight
Callers == {"c1", "c2"}

\* undefined metadata: projectId, entityType, entityId as "", relevance as -1
Undefined == -1
ContentFoo == <<"F", "o", "o">>
ContentBar == <<"B", "a", "r">>
QueryFoo == <<"f", "o", "o">>
QueryZ == <<"z">>

\* the MemoryInput values handed to MemoryManager.store
MemoryInputs ==
  {[type |-> "short-term", content |-> ContentFoo, relevance |-> Undefined,
    tags |-> {"t1"}, projectId |-> "p1", entityType |-> "", entityId |-> ""],
   [type |-> "long-term", content |-> ContentFoo, relevance |-> 90,
    tags |-> {"t1"}, projectId |-> "p1", entityType |-> "", entityId |-> ""],
   [type |-> "long-term", content |-> ContentBar, relevance |-> 0,
    tags |-> {}, projectId |-> "", entityType |-> "", entityId |-> ""],
   [type |-> "entity", content |-> ContentFoo, relevance |-> Undefined,
    tags |-> {}, projectId |-> "p1", entityType |-> "api", entityId |-> "e1"],
   [type |-> "entity", content |-> ContentBar, relevance |-> 100,
    tags |-> {"t1"}, projectId |-> "", entityType |-> "api", entityId |-> "e1"]}

\* the options of a tier search; "" and {} stand for a field left out
NoOptions == [projectId |-> "", tags |-> {}, entityType |-> ""]
\* the tier searches called
SearchCalls ==
  {[tier |-> "short-term", query |-> QueryFoo, limit |-> 2, options |-> NoOptions],
   [tier |-> "short-term", query |-> QueryFoo, limit |-> 1,
    options |-> [projectId |-> "p1", tags |-> {"t1"}, entityType |-> ""]],
   [tier |-> "long-term", query |-> QueryFoo, limit |-> 2, options |-> NoOptions],
   [tier |-> "long-term", query |-> QueryZ, limit |-> 1,
    options |-> [projectId |-> "", tags |-> {"t1"}, entityType |-> ""]],
   [tier |-> "long-term", query |-> QueryFoo, limit |-> 2,
    options |-> [projectId |-> "p1", tags |-> {"t1"}, entityType |-> ""]],
   [tier |-> "entity", query |-> QueryFoo, limit |-> 2,
    options |-> [projectId |-> "", tags |-> {}, entityType |-> "api"]],
   [tier |-> "entity", query |-> QueryZ, limit |-> 1,
    options |-> [projectId |-> "p1", tags |-> {}, entityType |-> ""]]}

\* no entry: what JSON.parse is never given, and what get returns as null
NoEntry ==
  [id |-> 0, type |-> "", content |-> << >>, relevance |-> 0, accessCount |-> 0,
   tags |-> {}, projectId |-> "", entityType |-> "", entityId |-> "",
   timestamp |-> [date |-> FALSE, ms |-> 0]]

\* the entry MemoryManager.store builds: `||` takes the default for every
\* falsy value, so for a relevance of 0 as for none
newEntry(input, id, t) ==
  [id |-> id,
   type |-> input.type,
   content |-> input.content,
   relevance |-> IF input.relevance = Undefined \/ input.relevance = 0
                 THEN 50 ELSE input.relevance,
   accessCount |-> 0,
   tags |-> input.tags,
   projectId |-> input.projectId,
   entityType |-> input.entityType,
   entityId |-> input.entityId,
   timestamp |-> [date |-> TRUE, ms |-> t]]

\* JSON.stringify(entry): a Date becomes its ISO string
stringify(entry) == [entry EXCEPT !.timestamp = [date |-> FALSE, ms |-> @.ms]]
\* JSON.parse(data): the ISO string stays a string
parse(data) == data

(***************************************************************************)
(* Redis commands, on the keys of the three prefixes.                      *)
(***************************************************************************)
NoScore == -1
EmptyRedis ==
  [rec |-> [t \in Tiers |-> [i \in KeyIds |-> NoEntry]],
   expireAt |-> [i \in KeyIds |-> NoScore],
   stmIndex |-> [i \in KeyIds |-> NoScore],
   ltmRelevance |-> [i \in KeyIds |-> NoScore],
   ltmTags |-> [g \in {"t1", "pipeline", "learned-fix"} |-> {}],
   ltmProject |-> [p \in {"p1"} |-> {}],
   entType |-> [y \in {"api"} |-> {}],
   entLookup |-> [e \in {"e1"} |-> 0],
   entProject |-> [p \in {"p1"} |-> {}],
   entIndex |-> [i \in KeyIds |-> NoScore]]

\* GET prefix+id: the value, or null (NoEntry)
redisGet(r, tier, id) == r.rec[tier][id]
\* SET prefix+id value: also drops a TTL of the key
redisSet(r, tier, id, value) ==
  [r EXCEPT !.rec[tier][id] = value,
            !.expireAt[id] = IF tier = "short-term" THEN NoScore ELSE @]
\* SETEX xorng:stm:id ttl value
redisSetEx(r, id, ttl, value, t) ==
  [r EXCEPT !.rec["short-term"][id] = value, !.expireAt[id] = t + ttl]
\* DEL that leaves the key in place
redisDelKept(r, tier, id) == r
\* DEL prefix+id
redisDel(r, tier, id) ==
  [r EXCEPT !.rec[tier][id] = NoEntry,
            !.expireAt[id] = IF tier = "short-term" THEN NoScore ELSE @]
\* the server drops the keys whose TTL has run out at time t
redisExpire(r, t) ==
  [r EXCEPT !.rec["short-term"] =
              [i \in KeyIds |-> IF r.expireAt[i] # NoScore /\ r.expireAt[i] <= t
                                THEN NoEntry ELSE @[i]],
            !.expireAt =
              [i \in KeyIds |-> IF r.expireAt[i] # NoScore /\ r.expireAt[i] <= t
                                THEN NoScore ELSE @[i]]]

\* ZADD, ZREM on one sorted set
zAdd(z, id, score) == [z EXCEPT ![id] = score]
zRem(z, id) == [z EXCEPT ![id] = NoScore]
zMembers(z) == {i \in DOMAIN z : z[i] # NoScore}
\* the order of a sorted set: by score, then by member
zLess(z, a, b) == z[a] < z[b] \/ (z[a] = z[b] /\ a < b)
RECURSIVE zSort(_, _)
zSort(z, S) ==
  IF S = {} THEN << >>
  ELSE LET m == CHOOSE a \in S : \A b \in S \ {a} : zLess(z, a, b)
       IN <<m>> \o zSort(z, S \ {m})
reverse(s) == [i \in 1..Len(s) |-> s[Len(s) + 1 - i]]
\* the index range start..stop of a sequence, with Redis' negative indexes
indexRange(s, start, stop) ==
  LET n == Len(s)
      lo == Max(IF start < 0 THEN n + start ELSE start, 0)
      hi == Min(IF stop < 0 THEN n + stop ELSE stop, n - 1)
  IN IF lo > hi THEN << >> ELSE SubSeq(s, lo + 1, hi + 1)
\* ZRANGE key start stop
zRange(z, start, stop) == indexRange(zSort(z, zMembers(z)), start, stop)
\* ZRANGE key start stop REV: the indexes count from the highest score
zRangeRev(z, start, stop) == indexRange(reverse(zSort(z, zMembers(z))), start, stop)

\* SMEMBERS, as an array (in the order of the ids)
RECURSIVE sMembers(_)
sMembers(S) ==
  IF S = {} THEN << >>
  ELSE LET m == CHOOSE a \in S : \A b \in S : a <= b
       IN <<m>> \o sMembers(S \ {m})
\* the set a tag, project or type key holds; a missing key is the empty set
setOf(index, key) == IF key \in DOMAIN index THEN index[key] ELSE {}
\* SINTER of the keys of the tags
sInter(index, tags) == sMembers({i \in KeyIds : \A g \in tags : i \in setOf(index, g)})
\* SADD / SREM of one id on each of the given keys of an index
sAddAll(index, keys, id) ==
  [k \in DOMAIN index |-> IF k \in keys THEN index[k] \cup {id} ELSE index[k]]
sRemAll(index, keys, id) ==
  [k \in DOMAIN index |-> IF k \in keys THEN index[k] \ {id} ELSE index[k]]
\* the keys an optional metadata field names: none for undefined or ""
keyOf(field) == IF field = "" THEN {} ELSE {field}

(***************************************************************************)
(* The tiers' operations, as the Redis commands between two awaits.        *)
(***************************************************************************)
\* store: SET / SETEX of the primary record
storeRecord(r, entry, t) ==
  IF entry.type = "short-term"
  THEN redisSetEx(r, entry.id, ttlSeconds, stringify(entry), t)
  ELSE redisSet(r, entry.type, entry.id, stringify(entry))

\* store: the index commands that follow the primary record
storeIndexes(r, entry) ==
  CASE entry.type = "short-term" ->
         [r EXCEPT !.stmIndex = zAdd(@, entry.id, entry.timestamp.ms)]
    [] entry.type = "long-term" ->
         [r EXCEPT !.ltmRelevance = zAdd(@, entry.id, entry.relevance),
                   !.ltmTags = sAddAll(@, entry.tags, entry.id),
                   !.ltmProject = sAddAll(@, keyOf(entry.projectId), entry.id)]
    [] OTHER ->
         [r EXCEPT !.entType = sAddAll(@, keyOf(entry.entityType), entry.id),
                   !.entLookup = [e \in DOMAIN @ |->
                                    IF e = entry.entityId THEN entry.id ELSE @[e]],
                   !.entProject = sAddAll(@, keyOf(entry.projectId), entry.id),
                   !.entIndex = zAdd(@, entry.id, entry.timestamp.ms)]

\* get that leaves the access count as it was read
getUnaccessed(entry) == entry
\* get: the entry written back, with one more access
getAccessed(entry) == [entry EXCEPT !.accessCount = @ + 1]
\* get: SET / SETEX of the accessed entry
getWrite(r, tier, entry, t) ==
  IF tier = "short-term"
  THEN redisSetEx(r, entry.id, ttlSeconds, stringify(getAccessed(entry)), t)
  ELSE redisSet(r, tier, entry.id, stringify(getAccessed(entry)))
\* LongTermMemory.get: the relevance after the access, capped at 1
newRelevance(entry) == Min(100, entry.relevance + 1)

\* delete: the index commands that the record read by delete calls for
deleteIndexes(r, tier, id, entry) ==
  CASE tier = "long-term" ->
         [r EXCEPT !.ltmTags = sRemAll(@, entry.tags, id),
                   !.ltmProject = sRemAll(@, keyOf(entry.projectId), id)]
    [] tier = "entity" ->
         [r EXCEPT !.entType = sRemAll(@, keyOf(entry.entityType), id),
                   !.entLookup = [e \in DOMAIN @ |->
                                    IF e = entry.entityId THEN 0 ELSE @[e]],
                   !.entProject = sRemAll(@, keyOf(entry.projectId), id)]
    [] OTHER -> r
\* delete: ZREM from the ranking / timestamp index of the tier
deleteRank(r, tier, id) ==
  CASE tier = "short-term" -> [r EXCEPT !.stmIndex = zRem(@, id)]
    [] tier = "long-term" -> [r EXCEPT !.ltmRelevance = zRem(@, id)]
    [] OTHER -> [r EXCEPT !.entIndex = zRem(@, id)]

\* ShortTermMemory.clear: KEYS xorng:stm:* and DEL of the keys found, the
\* index among them
clear(r) ==
  [r EXCEPT !.rec["short-term"] = [i \in KeyIds |-> NoEntry],
            !.expireAt = [i \in KeyIds |-> NoScore],
            !.stmIndex = [i \in KeyIds |-> NoScore]]

\* search: the candidate ids each tier reads first
searchCandidates(r, tier, limit, options) ==
  CASE tier = "short-term" -> reverse(zRange(r.stmIndex, -(limit * 2), -1))
    [] tier = "long-term" ->
         IF options.projectId # ""
         THEN sMembers(setOf(r.ltmProject, options.projectId))
         ELSE IF options.tags # {}
              THEN sInter(r.ltmTags, options.tags)
              ELSE zRangeRev(r.ltmRelevance, -(limit * 3), -1)
    [] OTHER ->
         IF options.entityType # ""
         THEN sMembers(setOf(r.entType, options.entityType))
         ELSE IF options.projectId # ""
              THEN sMembers(setOf(r.entProject, options.projectId))
              ELSE zRange(r.entIndex, -(limit * 3), -1)

\* search: whether a fetched entry passes the text match and the filters
searchKeeps(tier, entry, query, options) ==
  LET queryLower == toLowerCase(query)
      contentLower == toLowerCase(entry.content)
  IN CASE tier = "short-term" ->
            /\ includes(contentLower, queryLower)
            /\ ~(options.projectId # "" /\ entry.projectId # options.projectId)
            /\ options.tags # {} => options.tags \cap entry.tags # {}
       [] tier = "long-term" ->
            /\ includes(contentLower, queryLower) \/ Len(queryLower) < 3
            /\ (options.tags # {} /\ options.projectId = "")
                 => options.tags \subseteq entry.tags
       [] OTHER ->
            /\ includes(contentLower, queryLower) \/ Len(queryLower) < 3
            /\ ~(options.projectId # "" /\ entry.projectId # options.projectId)
            /\ options.tags # {} => options.tags \cap entry.tags # {}

\* search: the loop over the candidates, ended when limit results are held
RECURSIVE searchFetch(_, _, _, _, _, _, _)
searchFetch(r, tier, candidates, query, limit, options, results) ==
  IF candidates = << >> \/ Len(results) >= limit THEN results
  ELSE LET data == redisGet(r, tier, Head(candidates))
           kept == data # NoEntry /\ searchKeeps(tier, parse(data), query, options)
       IN searchFetch(r, tier, Tail(candidates), query, limit, options,
                      IF kept THEN Append(results, parse(data)) ELSE results)

\* Array.prototype.sort by descending relevance (stable)
RECURSIVE sortByRelevance(_)
InsertByRelevance(sorted, e) ==
  LET k == Cardinality({i \in 1..Len(sorted) : sorted[i].relevance >= e.relevance})
  IN SubSeq(sorted, 1, k) \o <<e>> \o SubSeq(sorted, k + 1, Len(sorted))
sortByRelevance(es) ==
  IF es = << >> THEN << >>
  ELSE InsertByRelevance(sortByRelevance(SubSeq(es, 1, Len(es) - 1)), es[Len(es)])

\* search: what the tier returns for the fetched results
searchReturn(tier, results, limit) ==
  IF tier = "long-term" THEN slice(sortByRelevance(results), limit) ELSE results

\* an operation slot with nothing in flight; `found` is history: whether the
\* DEL of a delete call removed a record
NoMemOp ==
  [op |-> "none", pc |-> "idle", tier |-> "", id |-> 0, entry |-> NoEntry,
   query |-> << >>, limit |-> 0, options |-> NoOptions, candidates |-> << >>,
   input |-> NoEntry, found |-> FALSE, entityId |-> ""]
\* what a memory operation returned: `entries` for search, `entry` otherwise
NoMemReturn ==
  [op |-> "none", tier |-> "", id |-> 0, outcome |-> "", entry |-> NoEntry,
   entries |-> << >>, input |-> NoEntry, query |-> << >>, limit |-> 0,
   options |-> NoOptions, entityId |-> ""]

(***************************************************************************)
(* Aggregator.                                                             *)
(*                                                                         *)
(* A confidence is counted in hundredths.  A weight                        *)
(* 0.7 * confidence + 0.3 * (1 - executionTimeMs / (maxExecutionTime + 1)) *)
(* is kept as the integer 1000 * (maxExecutionTime + 1) times it, which    *)
(* orders the results of one call as the weights themselves do.            *)
(***************************************************************************)
\* number of results handed to aggregate
MaxResults == 3

AggregationStrategies == {"concatenate", "best-score", "consensus", "weighted", "custom"}
\* the results handed to aggregate
SubAgentResults ==
  [agentName : {<<"A">>}, content : {<<"x">>, <<"y">>}, confidence : {0, 90, 95},
   executionTimeMs : {0, 100, 800}, tokensUsed : {0}]

\* Array.prototype.join
RECURSIVE join(_, _)
join(parts, sep) ==
  IF parts = << >> THEN << >>
  ELSE IF Len(parts) = 1 THEN parts[1]
       ELSE parts[1] \o sep \o join(Tail(parts), sep)

RECURSIVE maxOf(_, _)
\* Math.max(...values, floor)
maxOf(values, floor) ==
  IF values = << >> THEN floor ELSE Max(Head(values), maxOf(Tail(values), floor))
RECURSIVE sumOf(_)
sumOf(values) == IF values = << >> THEN 0 ELSE Head(values) + sumOf(Tail(values))

\* concatenateResults
concatenateResults(results) ==
  join([i \in 1..Len(results) |->
          <<"[">> \o results[i].agentName \o <<"]", "\n">> \o results[i].content],
       <<"\n", "\n", "-", "-", "-", "\n", "\n">>)

\* [...results].sort((a, b) => b.confidence - a.confidence) (stable)
RECURSIVE sortByConfidence(_)
InsertByConfidence(sorted, r) ==
  LET k == Cardinality({i \in 1..Len(sorted) : sorted[i].confidence >= r.confidence})
  IN SubSeq(sorted, 1, k) \o <<r>> \o SubSeq(sorted, k + 1, Len(sorted))
sortByConfidence(rs) ==
  IF rs = << >> THEN << >>
  ELSE InsertByConfidence(sortByConfidence(SubSeq(rs, 1, Len(rs) - 1)), rs[Len(rs)])

\* selectBestResult
selectBestResult(results) ==
  IF results = << >> THEN << >> ELSE sortByConfidence(results)[1].content

\* findConsensus: the results at or above the average confidence
findConsensus(results) ==
  LET total == sumOf([i \in 1..Len(results) |-> results[i].confidence])
      highConfidence == SelectSeq(results, LAMBDA r : r.confidence * Len(results) >= total)
  IN IF Len(highConfidence) = 1 THEN highConfidence[1].content
     ELSE join([i \in 1..Len(highConfidence) |-> highConfidence[i].content], <<"\n", "\n">>)

\* a weight that counts the confidence alone
weightOfConfidence(r, maxExecutionTime) == 7 * r.confidence * (maxExecutionTime + 1)
\* weightedAggregate: the weight of a result, times 1000 * (maxExecutionTime + 1)
weightOf(r, maxExecutionTime) ==
  7 * r.confidence * (maxExecutionTime + 1)
    + 300 * ((maxExecutionTime + 1) - r.executionTimeMs)

\* weighted.sort((a, b) => b.weight - a.weight) (stable)
RECURSIVE sortByWeight(_)
InsertByWeight(sorted, w) ==
  LET k == Cardinality({i \in 1..Len(sorted) : sorted[i].weight >= w.weight})
  IN SubSeq(sorted, 1, k) \o <<w>> \o SubSeq(sorted, k + 1, Len(sorted))
sortByWeight(ws) ==
  IF ws = << >> THEN << >>
  ELSE InsertByWeight(sortByWeight(SubSeq(ws, 1, Len(ws) - 1)), ws[Len(ws)])

\* weightedAggregate: the results with their weights, sorted
weightedSorted(results) ==
  LET maxExecutionTime ==
        maxOf([i \in 1..Len(results) |-> results[i].executionTimeMs], 0)
  IN sortByWeight([i \in 1..Len(results) |->
                     [result |-> results[i],
                      weight |-> weightOf(results[i], maxExecutionTime)]])

\* weightedAggregate: the loop that pushes sections until the weight pushed
\* is 80% of the total weight
RECURSIVE weightedSections(_, _, _, _)
weightedSections(weighted, sections, totalWeight, totalAvailable) ==
  IF weighted = << >> THEN sections
  ELSE LET pushed == Append(sections, Head(weighted).result.content)
           sum == totalWeight + Head(weighted).weight
       IN IF 10 * sum >= 8 * totalAvailable
          THEN pushed
          ELSE weightedSections(Tail(weighted), pushed, sum, totalAvailable)

\* weightedAggregate with the loop starting after the first sorted result
weightedAggregateAfterFirst(results) ==
  LET weighted == weightedSorted(results)
      totalAvailable == sumOf([i \in 1..Len(weighted) |-> weighted[i].weight])
      sections == weightedSections(Tail(weighted), << >>, 0, totalAvailable)
  IN IF Len(sections) = 1 THEN sections[1]
     ELSE join(sections, <<"\n", "\n", "-", "-", "-", "\n", "\n">>)
\* weightedAggregate
weightedAggregate(results) ==
  LET weighted == weightedSorted(results)
      totalAvailable == sumOf([i \in 1..Len(weighted) |-> weighted[i].weight])
      sections == weightedSections(weighted, << >>, 0, totalAvailable)
  IN IF Len(sections) = 1 THEN sections[1]
     ELSE join(sections, <<"\n", "\n", "-", "-", "-", "\n", "\n">>)

\* the response before any aggregate call
NoAggregation ==
  [present |-> FALSE, strategy |-> "", content |-> << >>, subAgentResults |-> << >>,
   totalTokensUsed |-> 0, totalExecutionTimeMs |-> 0, agentsInvoked |-> 0]

\* createEmptyResponse: the content is kept as one piece of text
createEmptyResponse(strategy) ==
  [present |-> TRUE, strategy |-> strategy,
   content |-> <<"No results available from sub-agents.">>,
   subAgentResults |-> << >>,
   totalTokensUsed |-> 0, totalExecutionTimeMs |-> 0, agentsInvoked |-> 0]

\* aggregate without the test for an empty result list
aggregateUnchecked(results, strategy) ==
  [present |-> TRUE,
   strategy |-> strategy,
   content |-> CASE strategy = "concatenate" -> concatenateResults(results)
                 [] strategy = "best-score" -> selectBestResult(results)
                 [] strategy = "consensus" -> findConsensus(results)
                 [] OTHER -> weightedAggregate(results),
   subAgentResults |-> results,
   totalTokensUsed |-> sumOf([i \in 1..Len(results) |-> results[i].tokensUsed]),
   totalExecutionTimeMs |->
     maxOf([i \in 1..Len(results) |-> results[i].executionTimeMs], 0),
   agentsInvoked |-> Len(results)]
\* aggregate(requestId, results, strategy)
aggregate(results, strategy) ==
  IF Len(results) = 0 THEN createEmptyResponse(strategy)
  ELSE [present |-> TRUE,
        strategy |-> strategy,
        content |-> CASE strategy = "concatenate" -> concatenateResults(results)
                      [] strategy = "best-score" -> selectBestResult(results)
                      [] strategy = "consensus" -> findConsensus(results)
                      [] OTHER -> weightedAggregate(results),
        subAgentResults |-> results,
        totalTokensUsed |-> sumOf([i \in 1..Len(results) |-> results[i].tokensUsed]),
        totalExecutionTimeMs |->
          maxOf([i \in 1..Len(results) |-> results[i].executionTimeMs], 0),
        agentsInvoked |-> Len(results)]

(***************************************************************************)
(* LearningService: error texts, pattern ids, confidence, the attempt log. *)
(* Texts are sequences of one-character strings; a fraction is a pair      *)
(* <<numerator, denominator>> with a positive denominator.                 *)
(***************************************************************************)
\* the calls of recordFixAttempt (one after another with the same attempt
\* counted once) that one behaviour of the attempt log makes
MaxCalls == 5
\* the calls of LearningService that one behaviour of the pattern store makes
MaxLearnCalls == 4

\* the printable ASCII characters, from code 32 on (code 96 by its name)
Printable ==
  <<" ", "!", "\"", "#", "$", "%", "&", "'", "(", ")", "*", "+", ",", "-", ".", "/",
    "0", "1", "2", "3", "4", "5", "6", "7", "8", "9", ":", ";", "<", "=", ">", "?",
    "@", "A", "B", "C", "D", "E", "F", "G", "H", "I", "J", "K", "L", "M", "N", "O",
    "P", "Q", "R", "S", "T", "U", "V", "W", "X", "Y", "Z", "[", "\\", "]", "^", "_",
    "grave", "a", "b", "c", "d", "e", "f", "g", "h", "i", "j", "k", "l", "m", "n", "o",
    "p", "q", "r", "s", "t", "u", "v", "w", "x", "y", "z", "{", "|", "}", "~">>

\* the code of each character
CharCodes ==
  [ch \in {Printable[i] : i \in DOMAIN Printable} |->
     31 + CHOOSE i \in DOMAIN Printable : Printable[i] = ch]
\* String.prototype.charCodeAt, of a one-character string
charCodeAt(ch) == CharCodes[ch]
\* \d
isDigit(ch) == charCodeAt(ch) \in 48..57

\* the length of the run of digits at the head of s
RECURSIVE digitRun(_)
digitRun(s) ==
  IF s # << >> /\ isDigit(Head(s)) THEN 1 + digitRun(Tail(s)) ELSE 0

\* s without its first n characters
drop(s, n) == SubSeq(s, n + 1, Len(s))
\* s begins with the text p
hasPrefix(s, p) == Len(s) >= Len(p) /\ SubSeq(s, 1, Len(p)) = p

TextLine == <<"l", "i", "n", "e", " ">>
TextLineN == <<"l", "i", "n", "e", " ", "N">>
TextColonNColonN == <<":", "N", ":", "N">>

\* replace(/line \d+/g, 'line N')
RECURSIVE replaceLineNumbers(_)
replaceLineNumbers(s) ==
  IF s = << >> THEN << >>
  ELSE IF hasPrefix(s, TextLine) /\ digitRun(drop(s, 5)) > 0
       THEN TextLineN \o replaceLineNumbers(drop(s, 5 + digitRun(drop(s, 5))))
       ELSE <<Head(s)>> \o replaceLineNumbers(Tail(s))

\* the length of the match of /:\d+:\d+/ at the head of s, 0 when there is
\* none: \d+ is greedy and a digit run is never followed by a digit
positionMatch(s) ==
  IF s # << >> /\ Head(s) = ":" /\ digitRun(Tail(s)) > 0
  THEN LET rest == drop(s, 1 + digitRun(Tail(s)))
       IN IF rest # << >> /\ Head(rest) = ":" /\ digitRun(Tail(rest)) > 0
          THEN 1 + digitRun(Tail(s)) + 1 + digitRun(Tail(rest))
          ELSE 0
  ELSE 0

\* replace(/:\d+:\d+/g, ':N:N')
RECURSIVE replacePositions(_)
replacePositions(s) ==
  IF s = << >> THEN << >>
  ELSE IF positionMatch(s) > 0
       THEN TextColonNColonN \o replacePositions(drop(s, positionMatch(s)))
       ELSE <<Head(s)>> \o replacePositions(Tail(s))

\* the digits left in the text
keepDigitRuns(s) == s
\* replace(/\d+/g, 'N')
RECURSIVE replaceDigitRuns(_)
replaceDigitRuns(s) ==
  IF s = << >> THEN << >>
  ELSE IF isDigit(Head(s))
       THEN <<"N">> \o replaceDigitRuns(drop(s, digitRun(s)))
       ELSE <<Head(s)>> \o replaceDigitRuns(Tail(s))

\* String.prototype.trim, for the blank
RECURSIVE trimStart(_)
trimStart(s) == IF s # << >> /\ Head(s) = " " THEN trimStart(Tail(s)) ELSE s
RECURSIVE trimEnd(_)
trimEnd(s) ==
  IF s # << >> /\ s[Len(s)] = " " THEN trimEnd(SubSeq(s, 1, Len(s) - 1)) ELSE s
trim(s) == trimEnd(trimStart(s))

\* generatePatternId: the normalized error text
normalizeError(errorPattern) ==
  slice(trim(replaceDigitRuns(replacePositions(replaceLineNumbers(
          toLowerCase(errorPattern))))), 100)

\* a 32-bit integer as the pair <<high 16 bits, low 16 bits>>
Int32Zero == <<0, 0>>
\* ((hash << 5) - hash) + char, then hash & hash: 31 * hash + char in 32 bits
hashStep(hash, code) ==
  LET low == 31 * hash[2] + code
  IN <<(31 * hash[1] + (low \div 65536)) % 65536, low % 65536>>

RECURSIVE hashOf(_, _)
hashOf(str, hash) ==
  IF str = << >> THEN hash ELSE hashOf(Tail(str), hashStep(hash, charCodeAt(Head(str))))

\* Math.abs of a 32-bit integer: a set sign bit means a negative number
abs32(hash) ==
  IF hash[1] < 32768 THEN hash
  ELSE <<IF hash[2] = 0 THEN 65536 - hash[1] ELSE 65535 - hash[1],
         (65536 - hash[2]) % 65536>>

HexDigits == <<"0", "1", "2", "3", "4", "5", "6", "7", "8", "9", "a", "b", "c", "d", "e", "f">>
\* Number.prototype.toString(16) of a natural number below 65536
RECURSIVE hex(_)
hex(n) == IF n < 16 THEN <<HexDigits[n + 1]>> ELSE hex(n \div 16) \o <<HexDigits[(n % 16) + 1]>>
\* the four hexadecimal digits of the low half
hex4(n) ==
  <<HexDigits[(n \div 4096) + 1], HexDigits[((n \div 256) % 16) + 1],
    HexDigits[((n \div 16) % 16) + 1], HexDigits[(n % 16) + 1]>>
toString16(n) == IF n[1] = 0 THEN hex(n[2]) ELSE hex(n[1]) \o hex4(n[2])

\* LearningService.hashString
hashString(str) == toString16(abs32(hashOf(str, Int32Zero)))

\* LearningService.generatePatternId: `${failureType}:${hash}`
generatePatternId(failureType, errorPattern) ==
  failureType \o <<":">> \o hashString(normalizeError(errorPattern))

(***************************************************************************)
(* Fractions.                                                              *)
(***************************************************************************)
ratEq(a, b) == a[1] * b[2] = b[1] * a[2]
ratLess(a, b) == a[1] * b[2] < b[1] * a[2]
\* a - b
ratMinus(a, b) == <<a[1] * b[2] - b[1] * a[2], a[2] * b[2]>>
RatZero == <<0, 1>>

\* the confidence 0.7 of a pattern that learnFromSuccess creates
InitialConfidence == <<7, 10>>

\* calculateConfidence without the prior
calculateConfidenceRaw(pattern) ==
  <<pattern.successCount, pattern.successCount + pattern.failureCount>>
\* LearningService.calculateConfidence
calculateConfidence(pattern) ==
  IF pattern.successCount + pattern.failureCount = 0 THEN <<1, 2>>
  ELSE <<pattern.successCount + 1, pattern.successCount + pattern.failureCount + 2>>

(***************************************************************************)
(* The attempt log.  Records that were pushed one after another by equal   *)
(* calls are held as one run [attempt, first, last]: first and last are    *)
(* the serial numbers of the calls that pushed the run's first and last    *)
(* record.  The serial number stands for the record's id and timestamp.    *)
(***************************************************************************)
\* fixAttempts.length
RECURSIVE logLength(_)
logLength(log) ==
  IF log = << >> THEN 0
  ELSE Head(log).last - Head(log).first + 1 + logLength(Tail(log))

\* the serial number of the record pushed last
lastSerial(log) == IF log = << >> THEN 0 ELSE log[Len(log)].last

\* n calls of fixAttempts.push, each with a record of the given attempt
pushRecords(log, attempt, n) ==
  IF log # << >> /\ log[Len(log)].attempt = attempt
  THEN [log EXCEPT ![Len(log)].last = @ + n]
  ELSE Append(log, [attempt |-> attempt, first |-> lastSerial(log) + 1,
                    last |-> lastSerial(log) + n])

\* Array.prototype.slice(n): the log without its first n records
RECURSIVE sliceFrom(_, _)
sliceFrom(log, n) ==
  IF log = << >> \/ n <= 0 THEN log
  ELSE LET size == Head(log).last - Head(log).first + 1
       IN IF n >= size THEN sliceFrom(Tail(log), n - size)
          ELSE <<[Head(log) EXCEPT !.first = @ + n]>> \o Tail(log)

\* Array.prototype.slice(0, n): the first n records of the log
RECURSIVE sliceTo(_, _)
sliceTo(log, n) ==
  IF log = << >> \/ n <= 0 THEN << >>
  ELSE LET size == Head(log).last - Head(log).first + 1
       IN IF n >= size THEN <<Head(log)>> \o sliceTo(Tail(log), n - size)
          ELSE <<[Head(log) EXCEPT !.last = Head(log).first + n - 1]>>

\* Array.prototype.slice(-n): the last n records of the log
sliceLast(log, n) == sliceFrom(log, logLength(log) - n)

\* filter(a => a.successful).length
RECURSIVE countSuccessful(_)
countSuccessful(log) ==
  IF log = << >> THEN 0
  ELSE (IF Head(log).attempt.successful THEN Head(log).last - Head(log).first + 1 ELSE 0)
         + countSuccessful(Tail(log))

\* the number of records the log keeps
AttemptCap == 10000
\* the cap that keeps the oldest records
capOldest(log) == sliceTo(log, AttemptCap)
\* recordFixAttempt: the log is cut to its last 10000 records
capAttempts(log) ==
  IF logLength(log) > AttemptCap THEN sliceLast(log, AttemptCap) ELSE log

\* the window of calculateLearningVelocity and the least number of attempts
VelocityWindow == 100
VelocityMinimum == 20

\* the velocity taken over the whole log
learningVelocityOfAll(log) ==
  IF logLength(log) < VelocityMinimum THEN RatZero
  ELSE LET half == logLength(log) \div 2
           firstHalf == sliceTo(log, half)
           secondHalf == sliceFrom(log, half)
       IN ratMinus(<<countSuccessful(secondHalf), logLength(secondHalf)>>,
                   <<countSuccessful(firstHalf), logLength(firstHalf)>>)
\* calculateLearningVelocity: the value metrics.learningVelocity takes
learningVelocity(log) ==
  LET recentAttempts == sliceLast(log, VelocityWindow)
  IN IF logLength(recentAttempts) < VelocityMinimum THEN RatZero
     ELSE LET half == logLength(recentAttempts) \div 2
              firstHalf == sliceTo(recentAttempts, half)
              secondHalf == sliceFrom(recentAttempts, half)
          IN ratMinus(<<countSuccessful(secondHalf), logLength(secondHalf)>>,
                      <<countSuccessful(firstHalf), logLength(firstHalf)>>)

(***************************************************************************)
(* Attempts and patterns.                                                  *)
(***************************************************************************)
FailureLint == <<"l", "i", "n", "t">>
FailureTest == <<"t", "e", "s", "t">>
FailureTypes == {FailureLint, FailureTest}

TextErrorAtLine == <<"E", "r", "r", "o", "r", " ", "a", "t", " ", "l", "i", "n", "e", " ">>
TextErrorLine12 == TextErrorAtLine \o <<"1", "2">>
TextErrorLine7 == TextErrorAtLine \o <<"7">>
TextPosition122Exit2 ==
  <<"a", ".", "t", "s", ":", "1", ":", "2", "2", " ", "e", "x", "i", "t", " ", "2">>
TextPosition34Exit13 ==
  <<"a", ".", "t", "s", ":", "3", ":", "4", " ", "e", "x", "i", "t", " ", "1", "3">>

\* the attempt given to recordFixAttempt; appliedFixes is the list of the
\* fixes' files, empty also when the attempt has none
attemptOf(failureType, errorPattern, successful, appliedFixes) ==
  [failureType |-> failureType, errorPattern |-> errorPattern,
   successful |-> successful, appliedFixes |-> appliedFixes]

FixedFile == <<"a.ts">>
AttemptFailed == attemptOf(FailureLint, TextErrorLine12, FALSE, << >>)
AttemptUnfixed == attemptOf(FailureLint, TextErrorLine12, TRUE, << >>)
\* the attempts the pattern store is driven with
LearningAttempts ==
  {attemptOf(FailureLint, TextErrorLine12, TRUE, FixedFile),
   attemptOf(FailureLint, TextErrorLine7, TRUE, FixedFile),
   attemptOf(FailureLint, TextPosition122Exit2, TRUE, FixedFile),
   attemptOf(FailureLint, TextPosition34Exit13, TRUE, FixedFile),
   attemptOf(FailureTest, TextErrorLine12, TRUE, FixedFile),
   AttemptFailed, AttemptUnfixed}
\* how many equal calls of recordFixAttempt follow one another
BatchSizes == {1, 9, 90, 9900}

\* the pattern ids recordPatternFailure is called with; the last one is
\* the id of no pattern
FailedPatternIds ==
  {generatePatternId(FailureLint, TextErrorLine12),
   generatePatternId(FailureTest, TextErrorLine12),
   FailureLint \o <<":", "0">>}

\* record.successful && record.appliedFixes?.length
learns(attempt) == attempt.successful /\ Len(attempt.appliedFixes) > 0

\* the position of the pattern with the given id in the Map, 0 for none
patternIndex(patterns, patternId) ==
  IF \E i \in DOMAIN patterns : patterns[i].id = patternId
  THEN CHOOSE i \in DOMAIN patterns : patterns[i].id = patternId
  ELSE 0

\* learnFromSuccess: fixPatterns after the record of a successful attempt
learnFromSuccess(patterns, record) ==
  LET patternId == generatePatternId(record.failureType, record.errorPattern)
      i == patternIndex(patterns, patternId)
  IN IF i # 0
     THEN LET counted == [patterns[i] EXCEPT !.successCount = @ + 1]
          IN [patterns EXCEPT ![i] = [counted EXCEPT !.confidence = calculateConfidence(counted)]]
     ELSE Append(patterns,
                 [id |-> patternId, failureType |-> record.failureType,
                  errorPattern |-> record.errorPattern,
                  appliedFix |-> record.appliedFixes, confidence |-> InitialConfidence,
                  successCount |-> 1, failureCount |-> 0])

\* recordPatternFailure: fixPatterns after the call
patternFailure(patterns, patternId) ==
  LET i == patternIndex(patterns, patternId)
  IN IF i # 0
     THEN LET counted == [patterns[i] EXCEPT !.failureCount = @ + 1]
          IN [patterns EXCEPT ![i] = [counted EXCEPT !.confidence = calculateConfidence(counted)]]
     ELSE patterns

\* LearningService.metrics after construction; the rate of a type and the
\* average attempts to fix are left out, a type without attempts has the
\* counts 0
InitialMetrics ==
  [fixSuccessRateByType |-> [t \in FailureTypes |-> [success |-> 0, failure |-> 0]],
   learningVelocity |-> RatZero,
   totalPatternsLearned |-> 0,
   patternHitRate |-> 0]

\* updateMetrics, n times for records of the same attempt, with the log
\* as the last call finds it
updateMetrics(m, record, n, log) ==
  [m EXCEPT !.fixSuccessRateByType[record.failureType] =
              IF record.successful THEN [@ EXCEPT !.success = @ + n]
              ELSE [@ EXCEPT !.failure = @ + n],
            !.learningVelocity = learningVelocity(log)]

(***************************************************************************)
(* LearningService with a memory manager: the records learnFromSuccess     *)
(* persists in long-term memory, and findSimilarPatterns.                  *)
(***************************************************************************)
\* config.minPatternConfidence ?? 0.7
MinPatternConfidence == <<7, 10>>
\* the similarity a locally held pattern must exceed: score > 0.3
MinSimilarity == <<3, 10>>
\* a * b
ratTimes(a, b) == <<a[1] * b[1], a[2] * b[2]>>

TextLineWord == <<"l", "i", "n", "e">>
\* calculateSimilarity's normalize: replace(/line \d+/g, 'line')
RECURSIVE stripLineNumbers(_)
stripLineNumbers(s) ==
  IF s = << >> THEN << >>
  ELSE IF hasPrefix(s, TextLine) /\ digitRun(drop(s, 5)) > 0
       THEN TextLineWord \o stripLineNumbers(drop(s, 5 + digitRun(drop(s, 5))))
       ELSE <<Head(s)>> \o stripLineNumbers(Tail(s))

\* replace(/:\d+:\d+/g, ':')
RECURSIVE stripPositions(_)
stripPositions(s) ==
  IF s = << >> THEN << >>
  ELSE IF positionMatch(s) > 0
       THEN <<":">> \o stripPositions(drop(s, positionMatch(s)))
       ELSE <<Head(s)>> \o stripPositions(Tail(s))

\* replace(/\d+/g, '')
RECURSIVE stripDigits(_)
stripDigits(s) ==
  IF s = << >> THEN << >>
  ELSE IF isDigit(Head(s)) THEN stripDigits(Tail(s))
       ELSE <<Head(s)>> \o stripDigits(Tail(s))

\* replace(/\s+/g, ' '), for the blank
RECURSIVE collapseBlanks(_)
collapseBlanks(s) ==
  IF s = << >> THEN << >>
  ELSE IF Head(s) = " "
       THEN <<" ">> \o collapseBlanks(trimStart(s))
       ELSE <<Head(s)>> \o collapseBlanks(Tail(s))

\* calculateSimilarity's normalize
normalizeSimilarity(s) ==
  trim(collapseBlanks(stripDigits(stripPositions(stripLineNumbers(toLowerCase(s))))))

\* the length of the text before the first blank of s
RECURSIVE tokenLength(_)
tokenLength(s) ==
  IF s = << >> \/ Head(s) = " " THEN 0 ELSE 1 + tokenLength(Tail(s))

\* new Set(s.split(' ')): the empty text is one (empty) token
RECURSIVE splitTokens(_)
splitTokens(s) ==
  LET n == tokenLength(s)
  IN IF n = Len(s) THEN {s}
     ELSE {SubSeq(s, 1, n)} \cup splitTokens(drop(s, n + 1))

\* LearningService.calculateSimilarity: token overlap over the larger token set
calculateSimilarity(pattern1, pattern2) ==
  LET tokens1 == splitTokens(normalizeSimilarity(pattern1))
      tokens2 == splitTokens(normalizeSimilarity(pattern2))
  IN <<Cardinality(tokens1 \cap tokens2),
       Max(Cardinality(tokens1), Cardinality(tokens2))>>

(***************************************************************************)
(* The JSON text of a pattern record.  The texts of the model hold no      *)
(* quote and no backslash, so that no character of a value is escaped.     *)
(***************************************************************************)
JsonTypeKey ==
  <<"\"", "t", "y", "p", "e", "\"", ":", "\"">>
JsonPatternType ==
  <<"p", "i", "p", "e", "l", "i", "n", "e", "-", "f", "i", "x", "-", "p",
    "a", "t", "t", "e", "r", "n">>
JsonFailureTypeKey ==
  <<"\"", "f", "a", "i", "l", "u", "r", "e", "T", "y", "p", "e", "\"", ":",
    "\"">>
JsonErrorPatternKey ==
  <<"\"", "e", "r", "r", "o", "r", "P", "a", "t", "t", "e", "r", "n", "\"",
    ":", "\"">>
JsonAppliedFixesKey ==
  <<"\"", "a", "p", "p", "l", "i", "e", "d", "F", "i", "x", "e", "s", "\"",
    ":">>
JsonFileKey ==
  <<"\"", "f", "i", "l", "e", "\"", ":", "\"">>
JsonDescriptionKey ==
  <<"\"", "d", "e", "s", "c", "r", "i", "p", "t", "i", "o", "n", "\"", ":",
    "\"">>
JsonTimestampKey ==
  <<"\"", "t", "i", "m", "e", "s", "t", "a", "m", "p", "\"", ":", "\"">>
\* the ISO text of the time of the model's clock: seconds after the epoch
IsoPrefix ==
  <<"1", "9", "7", "0", "-", "0", "1", "-", "0", "1", "T", "0", "0", ":",
    "0", "0", ":", "0">>
IsoSuffix ==
  <<".", "0", "0", "0", "Z">>
Digits == <<"0", "1", "2", "3", "4", "5", "6", "7", "8", "9">>
toISOString(t) == IsoPrefix \o <<Digits[(t % 10) + 1]>> \o IsoSuffix

\* JSON.stringify of the applied fixes: each fix is its file, with an empty
\* description
RECURSIVE jsonFixes(_)
jsonFixes(fixes) ==
  IF fixes = << >> THEN << >>
  ELSE <<"{">> \o JsonFileKey \o fixes[1] \o <<"\"", ",">> \o JsonDescriptionKey
         \o <<"\"", "}">>
         \o (IF Len(fixes) > 1 THEN <<",">> ELSE << >>) \o jsonFixes(Tail(fixes))

\* JSON.stringify({type, failureType, errorPattern, appliedFixes, repo,
\* timestamp}) in learnFromSuccess; repo is undefined and left out
patternContent(record, t) ==
  <<"{">> \o JsonTypeKey \o JsonPatternType \o <<"\"", ",">>
    \o JsonFailureTypeKey \o record.failureType \o <<"\"", ",">>
    \o JsonErrorPatternKey \o record.errorPattern \o <<"\"", ",">>
    \o JsonAppliedFixesKey \o <<"[">> \o jsonFixes(record.appliedFixes) \o <<"]", ",">>
    \o JsonTimestampKey \o toISOString(t) \o <<"\"", "}">>

\* the positions (from 0) at which pat occurs in s
occurrences(s, pat) ==
  {i \in 0..(Len(s) - Len(pat)) : \A j \in 1..Len(pat) : s[i + j] = pat[j]}

\* the position after the first occurrence of pat in s, 0 when there is none
indexAfter(s, pat) ==
  LET found == occurrences(s, pat)
  IN IF found = {} THEN 0
     ELSE Len(pat) + CHOOSE i \in found : \A k \in found : i <= k

\* the text up to the next quote
RECURSIVE untilQuote(_)
untilQuote(s) ==
  IF s = << >> \/ Head(s) = "\"" THEN << >> ELSE <<Head(s)>> \o untilQuote(Tail(s))

\* JSON.parse(content)[key] for a key with a text value; the empty text when
\* the key is missing
jsonText(content, key) ==
  LET after == indexAfter(content, key)
  IN IF after = 0 THEN << >> ELSE untilQuote(drop(content, after))

\* JSON.parse(content).appliedFixes, as the files of the fixes
RECURSIVE jsonFiles(_)
jsonFiles(content) ==
  LET after == indexAfter(content, JsonFileKey)
  IN IF after = 0 THEN << >>
     ELSE <<untilQuote(drop(content, after))>> \o jsonFiles(drop(content, after))

\* JSON.parse(entry.content) of a pattern record
parsePattern(content) ==
  [type |-> jsonText(content, JsonTypeKey),
   failureType |-> jsonText(content, JsonFailureTypeKey),
   errorPattern |-> jsonText(content, JsonErrorPatternKey),
   appliedFixes |-> jsonFiles(content)]
(***************************************************************************)
(* learnFromSuccess's record in long-term memory, and the search for it.   *)
(***************************************************************************)
\* the failure type as a tag
tagOf(failureType) == IF failureType = FailureLint THEN "lint" ELSE "test"

\* the input learnFromSuccess gives MemoryManager.store: relevance 0.9
patternInput(record, t) ==
  [type |-> "long-term", content |-> patternContent(record, t), relevance |-> 90,
   tags |-> {"pipeline", tagOf(record.failureType), "learned-fix", "pattern"},
   projectId |-> "", entityType |-> "", entityId |-> ""]

\* MemoryManager.store of the record, with every command of the tier done
storePattern(r, record, id, t) ==
  LET entry == newEntry(patternInput(record, t), id, t)
  IN storeIndexes(storeRecord(r, entry, t), entry)

\* the options findSimilarPatterns searches with
PatternSearchOptions ==
  [projectId |-> "", tags |-> {"pipeline", "learned-fix"}, entityType |-> ""]

\* MemoryManager.search(query, limit, {tags, types: ['long-term']}), with
\* every command of the tier done: the tier's results, sorted and cut again
searchLongTerm(r, query, limit, options) ==
  LET candidates == searchCandidates(r, "long-term", limit, options)
      results == searchFetch(r, "long-term", candidates, query, limit, options, << >>)
  IN slice(sortByRelevance(searchReturn("long-term", results, limit)), limit)

(***************************************************************************)
(* findSimilarPatterns.                                                    *)
(***************************************************************************)
\* the locally held patterns that pass the filters, with their scores
localCandidates(patterns, failureType, errorPattern) ==
  LET keeps(p) ==
        /\ p.failureType = failureType
        /\ ~ratLess(p.confidence, MinPatternConfidence)
        /\ ratLess(MinSimilarity, calculateSimilarity(errorPattern, p.errorPattern))
      kept == SelectSeq(patterns, keeps)
  IN [k \in 1..Len(kept) |->
        [pattern |-> kept[k],
         score |-> ratTimes(calculateSimilarity(errorPattern, kept[k].errorPattern),
                            kept[k].confidence)]]

\* the candidate made of a memory entry: its relevance is its confidence and
\* its score
memoryCandidate(entry) ==
  LET data == parsePattern(entry.content)
  IN [pattern |-> [id |-> generatePatternId(data.failureType, data.errorPattern),
                   failureType |-> data.failureType,
                   errorPattern |-> data.errorPattern,
                   appliedFix |-> data.appliedFixes,
                   confidence |-> <<entry.relevance, 100>>,
                   successCount |-> 1, failureCount |-> 0],
      score |-> <<entry.relevance, 100>>]

\* the memory entries that become candidates: pattern records of the failure
\* type whose pattern id the Map does not hold
memoryCandidates(patterns, memoryResults, failureType) ==
  LET isNew(entry) ==
        LET made == memoryCandidate(entry)
        IN /\ jsonText(entry.content, JsonTypeKey) = JsonPatternType
           /\ made.pattern.failureType = failureType
           /\ patternIndex(patterns, made.pattern.id) = 0
      fresh == SelectSeq(memoryResults, isNew)
  IN [n \in 1..Len(fresh) |-> memoryCandidate(fresh[n])]

\* Array.prototype.sort by descending score (stable)
InsertByCandidateScore(sorted, c) ==
  LET k == Cardinality({i \in 1..Len(sorted) : ~ratLess(sorted[i].score, c.score)})
  IN SubSeq(sorted, 1, k) \o <<c>> \o SubSeq(sorted, k + 1, Len(sorted))
RECURSIVE sortByCandidateScore(_)
sortByCandidateScore(cs) ==
  IF cs = << >> THEN << >>
  ELSE InsertByCandidateScore(sortByCandidateScore(SubSeq(cs, 1, Len(cs) - 1)), cs[Len(cs)])

\* findSimilarPatterns with the confidence of the locally held patterns not
\* looked at
findSimilarPatternsOfAnyConfidence(patterns, memoryResults, failureType, errorPattern, limit) ==
  LET keeps(p) ==
        /\ p.failureType = failureType
        /\ ratLess(MinSimilarity, calculateSimilarity(errorPattern, p.errorPattern))
      kept == SelectSeq(patterns, keeps)
  IN slice(sortByCandidateScore(
             [n \in 1..Len(kept) |->
                [pattern |-> kept[n],
                 score |-> ratTimes(calculateSimilarity(errorPattern, kept[n].errorPattern),
                                    kept[n].confidence)]]
             \o memoryCandidates(patterns, memoryResults, failureType)), limit)

\* findSimilarPatterns: the candidates it returns the patterns of, with the
\* scores they were ranked by; memoryResults is empty when the search raised
findSimilarPatterns(patterns, memoryResults, failureType, errorPattern, limit) ==
  slice(sortByCandidateScore(
          localCandidates(patterns, failureType, errorPattern)
          \o memoryCandidates(patterns, memoryResults, failureType)), limit)

\* what findSimilarPatterns has returned when it was not called yet; patterns
\* is history: the values of the Map as the call found them
NoSimilar ==
  [called |-> FALSE, failureType |-> << >>, errorPattern |-> << >>, limit |-> 0,
   ranked |-> << >>, patterns |-> << >>]

(***************************************************************************)
(* State.                                                                  *)
(*                                                                         *)
(* A SubAgentConnection object is named by the agent id it was created     *)
(* for.  An id is registered again only when no call is still in flight on *)
(* the connection that id had before, so an id always names one object.    *)
(* process() is modelled with one call in flight at a time; tool calls     *)
(* that overlap on a connection come from callTool on the registry.        *)
(*                                                                         *)
(* A step runs from one settled await on an outside party (the agent       *)
(* client, the memory store) to the next one: the continuations that run   *)
(* in between without waiting for anyone belong to the same step.          *)
(***************************************************************************)
VARIABLES
  isInitialized,      \* XORNGCore.isInitialized
  memoryInitialized,  \* MemoryManager.isInitialized
  lifecycle,          \* await point of the initialize() or shutdown() call in flight
  conns,              \* the SubAgentConnection objects, by agent id
  connections,        \* SubAgentManager.connections: the keys of the Map in
                      \* insertion order
  dAll,               \* the disconnectAll() call in flight
  proc,               \* the process() call in flight
  ret,                \* what the last step returned or raised to a caller
  routerAgents,       \* routing harness: the agent snapshot
  routerRequest,      \* routing harness: the request routed last
  routerDecision,     \* routing harness: the decision returned for it
  redis,              \* the keys of the Redis server under the three key prefixes
  memClient,          \* per memory tier: whether its client is set (not null)
  memOps,             \* the memory operations in flight
  memRet,             \* what the last memory step returned or raised
  memUsed,            \* the entry ids crypto.randomUUID has given out
  memDeleted,         \* history: the <<tier, id>> of the entries whose delete has completed
  now,                \* the clock, in units of one TTL step
  aggResults,         \* aggregation harness: the result list
  aggResponse,        \* aggregation harness: the response returned for it
  fixPatterns,        \* LearningService.fixPatterns: the values of the Map in
                      \* insertion order
  fixAttempts,        \* LearningService.fixAttempts, as runs of equal records
  metrics,            \* LearningService.metrics
  recordedAttempts,   \* history: every attempt recorded so far, as runs
  learningCalls,      \* history: the number of LearningService steps taken
  similar             \* what findSimilarPatterns returned last, with its arguments

vars == <<isInitialized, memoryInitialized, lifecycle, conns, connections, dAll, proc, ret,
          routerAgents, routerRequest, routerDecision,
          redis, memClient, memOps, memRet, memUsed, memDeleted, now, aggResults, aggResponse,
          fixPatterns, fixAttempts, metrics, recordedAttempts, learningCalls, similar>>
learningVars == <<fixPatterns, fixAttempts, metrics, recordedAttempts, learningCalls, similar>>
routerVars == <<routerAgents, routerRequest, routerDecision>>
memoryVars == <<redis, memClient, memOps, memRet, memUsed, memDeleted, now>>
aggregatorVars == <<aggResults, aggResponse>>
coreVars == <<isInitialized, lifecycle, conns, connections, dAll, proc, ret>>

\* the agent ids of the registration configs
Ids == {"a1", "a2"}
SubAgentTypes == {"validator", "knowledge", "task", "dynamic"}
SubAgentStatuses == {"idle", "busy", "error", "disconnected"}
ConnectionTypes == {"virtual", "stdio", "http"}

\* the response part of a return is filled by process() only
NoResponse ==
  [present |-> FALSE, subAgentResults |-> << >>, agentsInvoked |-> 0,
   agentIds |-> << >>, slots |-> << >>, stored |-> << >>]
NoReturn == [op |-> "none", id |-> "", outcome |-> "", detail |-> "", response |-> NoResponse]
Returned(op, id, outcome, detail) ==
  [op |-> op, id |-> id, outcome |-> outcome, detail |-> detail, response |-> NoResponse]

(***************************************************************************)
(* SubAgentManager: the connection Map.                                    *)
(***************************************************************************)
\* Map.prototype.has
has(agentId) == agentId \in Range(connections)

\* Map.prototype.set: keeps the place of an existing key, else appends the key
MapSet(m, agentId) == IF agentId \in Range(m) THEN m ELSE Append(m, agentId)

\* Map.prototype.delete
MapDelete(m, agentId) == SelectSeq(m, LAMBDA k : k # agentId)

\* getAllAgents: the SubAgent records of the registered connections, in Map order
getAllAgents ==
  [k \in 1..Len(connections) |->
     [id |-> connections[k],
      type |-> conns[connections[k]].type,
      status |-> conns[connections[k]].agentStatus,
      capabilities |-> conns[connections[k]].capabilities]]

(***************************************************************************)
(* Inputs of the registry and orchestration models.                        *)
(***************************************************************************)
\* type and capabilities a registration config gives for each id
ConfigType(id) == IF id = "a1" THEN "knowledge" ELSE "task"
ConfigCapabilities(id) == IF id = "a1" THEN {"explanation"} ELSE {"api-analysis"}

\* SubAgentConfig: hasTarget says that command (stdio) or endpoint (http) is given
Configs == [id : Ids, connectionType : ConnectionTypes, hasTarget : BOOLEAN]

\* the configs registered through XORNGCore.registerSubAgent
CoreConfigs == {config \in Configs : config.hasTarget /\ config.connectionType = "virtual"}

Requests ==
  [prompt : {PromptBuildApi, PromptHello},
   preferredAgents : {{}},
   excludeAgents : {{}},
   context : {NoContext},
   includeMemory : BOOLEAN]

NoRequest ==
  [prompt |-> << >>, preferredAgents |-> {}, excludeAgents |-> {},
   context |-> NoContext, includeMemory |-> FALSE]

\* the object an id names before its first registration
NoConnection ==
  [created |-> FALSE, type |-> "dynamic", capabilities |-> {},
   status |-> "disconnected", agentStatus |-> "disconnected",
   reg |-> "none", directCalls |-> 0, unreg |-> "none"]

NoDisconnectAll == [active |-> FALSE, owner |-> "none", pending |-> {}, anyFailed |-> FALSE]

EmptyProc ==
  [pc |-> "idle", request |-> NoRequest, agentIds |-> << >>, nQueries |-> 0,
   memIdx |-> 0, memoryContext |-> {}, slots |-> << >>,
   aggregated |-> FALSE, results |-> << >>, storing |-> "none", stored |-> << >>]

Init ==
  /\ isInitialized = FALSE
  /\ memoryInitialized = FALSE
  /\ lifecycle = "none"
  /\ conns = [id \in Ids |-> NoConnection]
  /\ connections = << >>
  /\ dAll = NoDisconnectAll
  /\ proc = EmptyProc
  /\ ret = NoReturn
  /\ routerAgents = << >>
  /\ routerRequest = NoRequest
  /\ routerDecision = route(NoRequest, << >>)
  /\ redis = EmptyRedis
  /\ memClient = [t \in Tiers |-> FALSE]
  /\ memOps = [c \in Callers |-> NoMemOp]
  /\ memRet = NoMemReturn
  /\ memUsed = {}
  /\ memDeleted = {}
  /\ now = 0
  /\ aggResults = << >>
  /\ aggResponse = NoAggregation
  /\ fixPatterns = << >>
  /\ fixAttempts = << >>
  /\ metrics = InitialMetrics
  /\ recordedAttempts = << >>
  /\ learningCalls = 0
  /\ similar = NoSimilar

(***************************************************************************)
(* XORNGCore.initialize.                                                   *)
(***************************************************************************)
\* initialize(): returns at once when already initialized, else awaits
\* memoryManager.initialize()
Initialize ==
  /\ lifecycle = "none"
  /\ IF isInitialized
     THEN /\ ret' = Returned("initialize", "", "ok", "already")
          /\ UNCHANGED lifecycle
     ELSE /\ lifecycle' = "initMemory"
          /\ ret' = NoReturn
  /\ UNCHANGED <<isInitialized, memoryInitialized, conns, connections, dAll, proc>>
  /\ UNCHANGED routerVars
  /\ UNCHANGED <<memoryVars, aggregatorVars, learningVars>>

\* memoryManager.initialize() settles (the three stores swallow a failed
\* connect and keep a null client), then initialize() sets isInitialized and
\* returns
InitializeDone(reachable) ==
  /\ lifecycle = "initMemory"
  /\ lifecycle' = "none"
  /\ memoryInitialized' = TRUE
  /\ memClient' = IF memoryInitialized THEN memClient ELSE [t \in Tiers |-> reachable]
  /\ isInitialized' = TRUE
  /\ ret' = Returned("initialize", "", "ok", "")
  /\ UNCHANGED <<conns, connections, dAll, proc>>
  /\ UNCHANGED routerVars
  /\ UNCHANGED <<redis, memOps, memRet, memUsed, memDeleted, now>>
  /\ UNCHANGED <<aggregatorVars, learningVars>>

(***************************************************************************)
(* SubAgentConnection.                                                     *)
(***************************************************************************)
\* new SubAgentConnection(agent) as registerAgent builds it
NewConnection(config) ==
  [created |-> TRUE,
   type |-> ConfigType(config.id),
   capabilities |-> ConfigCapabilities(config.id),
   status |-> "disconnected",        \* SubAgentConnection._status
   agentStatus |-> "disconnected",   \* SubAgent.status
   reg |-> "none",                   \* await point of the registerAgent call
   directCalls |-> 0,                \* callTool calls awaiting client.callTool
   unreg |-> "none"]                 \* await point of the unregisterAgent call

\* callTool without the check of the status
callToolStartUnchecked(status) == [thrown |-> FALSE, status |-> "busy"]

\* callTool up to its await: whether it throws, and the status it leaves
callToolStart(status) ==
  IF status = "disconnected"
  THEN [thrown |-> TRUE, status |-> status]
  ELSE [thrown |-> FALSE, status |-> "busy"]

\* callTool after client.callTool has settled
callToolSettle(ok) == IF ok THEN "idle" ELSE "error"

\* connectStdio / connectHttp after client.connect has settled
connectSettle(ok) == IF ok THEN "idle" ELSE "error"

\* disconnect that rethrows the failure of client.close
disconnectRethrow(status, ok) ==
  IF ok THEN [status |-> "disconnected", raised |-> FALSE]
        ELSE [status |-> status, raised |-> TRUE]

\* disconnect after client.close has settled: a failure is logged, not rethrown
disconnect(status, ok) ==
  IF ok THEN [status |-> "disconnected", raised |-> FALSE]
        ELSE [status |-> status, raised |-> FALSE]

\* setVirtual(): both the connection status and the agent status become idle
\* (the _isVirtual flag it sets is read by nothing and is left out)
setVirtual(conn) == [conn EXCEPT !.status = "idle", !.agentStatus = "idle"]

\* getConnection(id).setVirtual(), by a host
SetVirtual(id) ==
  /\ has(id)
  /\ conns' = [conns EXCEPT ![id] = setVirtual(conns[id])]
  /\ ret' = NoReturn
  /\ UNCHANGED <<isInitialized, memoryInitialized, lifecycle, connections, dAll, proc>>
  /\ UNCHANGED routerVars
  /\ UNCHANGED <<memoryVars, aggregatorVars, learningVars>>

\* the tool calls of the process() call in flight that await client.callTool on id
ProcCalls(id) ==
  {i \in 1..Len(proc.slots) : proc.slots[i] = "pending" /\ proc.agentIds[i] = id}

\* no call is in flight on the connection object of the id
Quiescent(id) ==
  /\ conns[id].reg = "none"
  /\ conns[id].directCalls = 0
  /\ conns[id].unreg = "none"
  /\ id \notin dAll.pending
  /\ ProcCalls(id) = {}

(***************************************************************************)
(* SubAgentManager.registerAgent.                                          *)
(***************************************************************************)
\* the connection branch of registerAgent, up to its first await
registerConnect(conn, config) ==
  IF config.connectionType = "virtual"
  THEN [conn EXCEPT !.agentStatus = "idle"]
  ELSE IF config.connectionType \in {"stdio", "http"} /\ config.hasTarget
       THEN [conn EXCEPT !.reg = "connect"]
       ELSE conn

\* registerAgent without the check of the id
isDuplicateUnchecked(config) == FALSE

\* whether registerAgent rejects the config as a duplicate
isDuplicate(config) == has(config.id)

RegisterAgent(config) ==
  /\ IF isDuplicate(config)
     THEN /\ ret' = Returned("registerAgent", config.id, "DuplicateAgent", "")
          /\ UNCHANGED <<conns, connections>>
     ELSE /\ Quiescent(config.id)
          /\ conns' = [conns EXCEPT ![config.id] =
                         registerConnect(NewConnection(config), config)]
          /\ connections' = MapSet(connections, config.id)
          /\ ret' = IF conns'[config.id].reg = "connect"
                    THEN NoReturn
                    ELSE Returned("registerAgent", config.id, "ok",
                                  IF config.connectionType = "virtual"
                                  THEN "virtual" ELSE "invalid")
  /\ UNCHANGED <<isInitialized, memoryInitialized, lifecycle, dAll, proc>>
  /\ UNCHANGED routerVars
  /\ UNCHANGED <<memoryVars, aggregatorVars, learningVars>>

\* XORNGCore.registerSubAgent
RegisterSubAgent(config) ==
  IF ~isInitialized
  THEN /\ ret' = Returned("registerSubAgent", config.id, "NotInitialized", "")
       /\ UNCHANGED <<isInitialized, memoryInitialized, lifecycle, conns, connections,
                      dAll, proc>>
       /\ UNCHANGED routerVars
       /\ UNCHANGED <<memoryVars, aggregatorVars, learningVars>>
  ELSE RegisterAgent(config)

\* client.connect settles
ConnectDone(id, ok) ==
  /\ conns[id].reg = "connect"
  /\ conns' = [conns EXCEPT ![id].status = connectSettle(ok),
                            ![id].reg = IF ok THEN "listTools" ELSE "none"]
  /\ ret' = IF ok THEN NoReturn
            ELSE Returned("registerAgent", id, "ok", "connectFailed")
  /\ UNCHANGED <<isInitialized, memoryInitialized, lifecycle, connections, dAll, proc>>
  /\ UNCHANGED routerVars
  /\ UNCHANGED <<memoryVars, aggregatorVars, learningVars>>

\* discoverCapabilities: client.listTools, then client.listResources; a failure
\* of either is logged inside discoverCapabilities and ends the discovery
DiscoverDone(id, ok) ==
  /\ conns[id].reg \in {"listTools", "listResources"}
  /\ conns' = [conns EXCEPT ![id].reg =
                 IF ok /\ conns[id].reg = "listTools" THEN "listResources" ELSE "none"]
  /\ ret' = IF ok /\ conns[id].reg = "listTools" THEN NoReturn
            ELSE Returned("registerAgent", id, "ok",
                          IF ok THEN "connected" ELSE "discoveryFailed")
  /\ UNCHANGED <<isInitialized, memoryInitialized, lifecycle, connections, dAll, proc>>
  /\ UNCHANGED routerVars
  /\ UNCHANGED <<memoryVars, aggregatorVars, learningVars>>

(***************************************************************************)
(* SubAgentManager.callTool, called by a host on the registry.             *)
(***************************************************************************)
\* the call starts a client.callTool on the agent's connection
callToolStarts(agentId) ==
  has(agentId) /\ ~callToolStart(conns[agentId].status).thrown

callTool(agentId) ==
  /\ IF ~has(agentId)
     THEN /\ ret' = Returned("callTool", agentId, "AgentNotFound", "")
          /\ UNCHANGED conns
     ELSE IF callToolStart(conns[agentId].status).thrown
     THEN /\ ret' = Returned("callTool", agentId, "NotConnected", "")
          /\ conns' = [conns EXCEPT ![agentId].status =
                         callToolStart(conns[agentId].status).status]
     ELSE /\ conns' = [conns EXCEPT ![agentId].status =
                         callToolStart(conns[agentId].status).status,
                                    ![agentId].directCalls = @ + 1]
          /\ ret' = NoReturn
  /\ UNCHANGED <<isInitialized, memoryInitialized, lifecycle, connections, dAll, proc>>
  /\ UNCHANGED routerVars
  /\ UNCHANGED <<memoryVars, aggregatorVars, learningVars>>

\* a call while fewer than MaxOverlap direct calls are in flight on the agent
CallTool(agentId) ==
  /\ callToolStarts(agentId) => conns[agentId].directCalls < MaxOverlap
  /\ callTool(agentId)

\* client.callTool settles for a direct call
CallToolDone(id, ok) ==
  /\ conns[id].directCalls > 0
  /\ conns' = [conns EXCEPT ![id].status = callToolSettle(ok),
                            ![id].directCalls = @ - 1]
  /\ ret' = Returned("callTool", id, IF ok THEN "ok" ELSE "ToolInvocationError", "")
  /\ UNCHANGED <<isInitialized, memoryInitialized, lifecycle, connections, dAll, proc>>
  /\ UNCHANGED routerVars
  /\ UNCHANGED <<memoryVars, aggregatorVars, learningVars>>

(***************************************************************************)
(* SubAgentManager.unregisterAgent.                                        *)
(***************************************************************************)
UnregisterAgent(agentId) ==
  /\ IF ~has(agentId)
     THEN /\ ret' = Returned("unregisterAgent", agentId, "ok", "unknown")
          /\ UNCHANGED conns
     ELSE /\ conns[agentId].unreg = "none"
          /\ conns' = [conns EXCEPT ![agentId].unreg = "closing"]
          /\ ret' = NoReturn
  /\ UNCHANGED <<isInitialized, memoryInitialized, lifecycle, connections, dAll, proc>>
  /\ UNCHANGED routerVars
  /\ UNCHANGED <<memoryVars, aggregatorVars, learningVars>>

\* client.close settles inside connection.disconnect(); then
\* connections.delete(agentId)
UnregisterDone(id, ok) ==
  /\ conns[id].unreg = "closing"
  /\ conns' = [conns EXCEPT ![id].status = disconnect(conns[id].status, ok).status,
                            ![id].unreg = "none"]
  /\ connections' = MapDelete(connections, id)
  /\ ret' = Returned("unregisterAgent", id, "ok", "")
  /\ UNCHANGED <<isInitialized, memoryInitialized, lifecycle, dAll, proc>>
  /\ UNCHANGED routerVars
  /\ UNCHANGED <<memoryVars, aggregatorVars, learningVars>>

(***************************************************************************)
(* SubAgentManager.disconnectAll, called by a host or by shutdown.         *)
(***************************************************************************)
\* the sync part: one disconnect() per connection of the Map, each awaiting close
disconnectAllStart(owner) ==
  [active |-> TRUE, owner |-> owner, pending |-> Range(connections), anyFailed |-> FALSE]

\* what disconnectAll returns once Promise.all has resolved
disconnectAllReturn(d) ==
  IF d.owner = "shutdown" THEN NoReturn
  ELSE Returned("disconnectAll", "", "ok", IF d.anyFailed THEN "someFailed" ELSE "")

\* disconnectAll after a disconnect() of the batch has settled, or right
\* after the start: Promise.all resolves when none is pending, then
\* connections.clear(); a shutdown goes on to await memoryManager.close()
disconnectAllStep(d) ==
  IF d.pending = {}
  THEN /\ dAll' = NoDisconnectAll
       /\ connections' = << >>
       /\ ret' = disconnectAllReturn(d)
       /\ lifecycle' = IF d.owner = "shutdown" THEN "shutMemory" ELSE lifecycle
  ELSE /\ dAll' = d
       /\ ret' = NoReturn
       /\ lifecycle' = IF d.owner = "shutdown" THEN "shutDisconnect" ELSE lifecycle
       /\ UNCHANGED connections

DisconnectAll ==
  /\ ~dAll.active
  /\ disconnectAllStep(disconnectAllStart("host"))
  /\ UNCHANGED <<isInitialized, memoryInitialized, conns, proc>>
  /\ UNCHANGED routerVars
  /\ UNCHANGED <<memoryVars, aggregatorVars, learningVars>>

\* XORNGCore.shutdown: awaits agentManager.disconnectAll()
Shutdown ==
  /\ ~dAll.active
  /\ lifecycle = "none"
  /\ disconnectAllStep(disconnectAllStart("shutdown"))
  /\ UNCHANGED <<isInitialized, memoryInitialized, conns, proc>>
  /\ UNCHANGED routerVars
  /\ UNCHANGED <<memoryVars, aggregatorVars, learningVars>>

\* client.close settles for one connection of the batch; Promise.all rejects on
\* the first disconnect() that raises
DisconnectAllCloseDone(id, ok) ==
  /\ dAll.active
  /\ id \in dAll.pending
  /\ conns' = [conns EXCEPT ![id].status = disconnect(conns[id].status, ok).status]
  /\ IF disconnect(conns[id].status, ok).raised
     THEN /\ dAll' = NoDisconnectAll
          /\ ret' = Returned(IF dAll.owner = "shutdown" THEN "shutdown" ELSE "disconnectAll",
                             "", "raised", "")
          /\ lifecycle' = IF dAll.owner = "shutdown" THEN "none" ELSE lifecycle
          /\ UNCHANGED connections
     ELSE disconnectAllStep([dAll EXCEPT !.pending = @ \ {id},
                                         !.anyFailed = @ \/ ~ok])
  /\ UNCHANGED <<isInitialized, memoryInitialized, proc>>
  /\ UNCHANGED routerVars
  /\ UNCHANGED <<memoryVars, aggregatorVars, learningVars>>

\* memoryManager.close() settles: Promise.all of the three store.close().  A
\* store whose quit() fails keeps its client and makes close() reject; the
\* others drop theirs.  When none fails, shutdown() clears isInitialized.
ShutdownDone(failed) ==
  /\ lifecycle = "shutMemory"
  /\ failed \subseteq {t \in Tiers : memClient[t]}
  /\ lifecycle' = "none"
  /\ memClient' = [t \in Tiers |-> t \in failed]
  /\ IF failed = {}
     THEN /\ memoryInitialized' = FALSE
          /\ isInitialized' = FALSE
          /\ ret' = Returned("shutdown", "", "ok", "")
     ELSE /\ ret' = Returned("shutdown", "", "raised", "memory")
          /\ UNCHANGED <<memoryInitialized, isInitialized>>
  /\ UNCHANGED <<conns, connections, dAll, proc>>
  /\ UNCHANGED routerVars
  /\ UNCHANGED <<redis, memOps, memRet, memUsed, memDeleted, now>>
  /\ UNCHANGED <<aggregatorVars, learningVars>>

(***************************************************************************)
(* XORNGCore.process.  The operators below take the record of the call and *)
(* the connections and give the record, the connections and the return     *)
(* value after the part of process() they model.                           *)
(***************************************************************************)
\* executeOnAgent up to its await: "missing" (no connection under the id),
\* "notconnected" (callTool threw at once), else "pending"
executeOnAgentStart(agentId) ==
  IF ~has(agentId) THEN "missing"
  ELSE IF callToolStart(conns[agentId].status).thrown THEN "notconnected"
  ELSE "pending"

\* executeOnAgent after client.callTool has settled: the error is caught
executeOnAgentSettle(ok) == IF ok THEN "ok" ELSE "failed"

\* Promise.race / Promise.any in place of Promise.all
anySettled(slots) == \E i \in 1..Len(slots) : slots[i] # "pending"

\* Promise.all(promises) has resolved: no executeOnAgent promise is pending
allSettled(slots) == \A i \in 1..Len(slots) : slots[i] # "pending"

\* the SubAgentResult list executeOnAgents returns: the non-null results, in order
collectResults(ids, slots) ==
  LET idx == SelectSeq([i \in 1..Len(ids) |-> i], LAMBDA i : slots[i] = "ok")
  IN [k \in 1..Len(idx) |->
        [agentId |-> ids[idx[k]], confidence |-> 80, toolsUsed |-> <<"process">>]]

RECURSIVE SumConfidence(_)
SumConfidence(rs) == IF rs = << >> THEN 0 ELSE Head(rs).confidence + SumConfidence(Tail(rs))

\* avgConfidence >= 0.8 in place of avgConfidence > 0.85
isHighConfidenceFrom80(results) == SumConfidence(results) >= 80 * Max(Len(results), 1)

\* avgConfidence > 0.85, with confidences in hundredths
isHighConfidence(results) == SumConfidence(results) > 85 * Max(Len(results), 1)

\* process() returns the response Aggregator.aggregate built from the results
processReturn(pr) ==
  [op |-> "process", id |-> "", outcome |-> "ok", detail |-> "",
   response |-> [present |-> pr.aggregated,
                 subAgentResults |-> pr.results,
                 agentsInvoked |-> Len(pr.results),
                 agentIds |-> pr.agentIds,
                 slots |-> pr.slots,
                 stored |-> pr.stored]]

\* updateMemory without its try/catch: a store that fails makes process fail
updateMemoryStepRethrow(pr, cs, ok) ==
  IF ok
  THEN [proc |-> EmptyProc, conns |-> cs,
        ret |-> processReturn([pr EXCEPT !.stored = Append(@, pr.storing),
                                         !.storing = "none"])]
  ELSE [proc |-> EmptyProc, conns |-> cs,
        ret |-> Returned("process", "", "raised", "memory")]

\* updateMemory after a store has settled or was rejected: a failure ends it,
\* a stored short-term entry is followed by the long-term one when the
\* confidence is high; then process() returns
updateMemoryStep(pr, cs, ok) ==
  LET done == [pr EXCEPT !.stored = IF ok THEN Append(@, pr.storing) ELSE @,
                         !.storing = "none"]
  IN IF ok /\ pr.storing = "short-term" /\ isHighConfidence(pr.results) /\ memoryInitialized
     THEN [proc |-> [done EXCEPT !.storing = "long-term"], conns |-> cs, ret |-> NoReturn]
     ELSE [proc |-> EmptyProc, conns |-> cs, ret |-> processReturn(done)]

\* updateMemory starts the short-term store; memoryManager.store rejects at
\* once when the memory system is not initialized
updateMemoryStart(pr, cs) ==
  IF memoryInitialized
  THEN [proc |-> [pr EXCEPT !.pc = "store", !.storing = "short-term"],
        conns |-> cs, ret |-> NoReturn]
  ELSE updateMemoryStep([pr EXCEPT !.storing = "short-term"], cs, FALSE)

\* executeOnAgents after a settled call, or right after the calls started:
\* once Promise.all has resolved the results are aggregated and the memory
\* update starts
executeOnAgentsStep(pr, cs) ==
  IF allSettled(pr.slots)
  THEN updateMemoryStart([pr EXCEPT !.aggregated = TRUE,
                                    !.results = collectResults(pr.agentIds, pr.slots)], cs)
  ELSE [proc |-> [pr EXCEPT !.pc = "waiting"], conns |-> cs, ret |-> NoReturn]

\* executeOnAgents up to Promise.all: allAgentIds.map(executeOnAgent)
executeOnAgents(pr, cs) ==
  LET ids == pr.agentIds
      started == [i \in 1..Len(ids) |-> executeOnAgentStart(ids[i])]
      called == {ids[i] : i \in {j \in 1..Len(ids) : started[j] = "pending"}}
  IN executeOnAgentsStep(
       [pr EXCEPT !.slots = started],
       [id \in Ids |-> IF id \in called
                       THEN [cs[id] EXCEPT !.status = callToolStart(cs[id].status).status]
                       ELSE cs[id]])

\* retrieveMemory that does not wait for its searches
moreQueriesUnawaited(done, nQueries) == FALSE

\* whether retrieveMemory has another query to search after `done` of them
moreQueries(done, nQueries) == done < nQueries

\* retrieveMemory after `done` searches: the next search is awaited, or is
\* rejected at once like all the later ones when the memory system is not
\* initialized; after the last one the agents are called
retrieveMemoryStep(pr, cs) ==
  IF pr.request.includeMemory /\ moreQueries(pr.memIdx, pr.nQueries) /\ memoryInitialized
  THEN [proc |-> [pr EXCEPT !.pc = "memory"], conns |-> cs, ret |-> NoReturn]
  ELSE executeOnAgents(
         IF pr.request.includeMemory /\ moreQueries(pr.memIdx, pr.nQueries)
         THEN [pr EXCEPT !.memIdx = pr.nQueries] ELSE pr, cs)

\* process(): the initialization check, route(), then the memory retrieval
Process(request) ==
  /\ proc.pc = "idle"
  /\ IF ~isInitialized
     THEN /\ ret' = Returned("process", "", "NotInitialized", "")
          /\ UNCHANGED <<proc, conns>>
     ELSE LET decision == route(request, getAllAgents)
              step == retrieveMemoryStep(
                        [EmptyProc EXCEPT
                           !.request = request,
                           !.agentIds = decision.primaryAgents \o decision.secondaryAgents,
                           !.nQueries = Len(slice(decision.memoryQueries, 5))],
                        conns)
          IN /\ proc' = step.proc
             /\ conns' = step.conns
             /\ ret' = step.ret
  /\ UNCHANGED <<isInitialized, memoryInitialized, lifecycle, connections, dAll>>
  /\ UNCHANGED routerVars
  /\ UNCHANGED <<memoryVars, aggregatorVars, learningVars>>

\* one memoryManager.search of retrieveMemory settles; a failure is caught
MemorySearchDone(ok) ==
  /\ proc.pc = "memory"
  /\ LET step == retrieveMemoryStep(
                   [proc EXCEPT !.memIdx = @ + 1,
                                !.memoryContext = IF ok THEN @ \cup {proc.memIdx + 1} ELSE @],
                   conns)
     IN /\ proc' = step.proc
        /\ conns' = step.conns
        /\ ret' = step.ret
  /\ UNCHANGED <<isInitialized, memoryInitialized, lifecycle, connections, dAll>>
  /\ UNCHANGED routerVars
  /\ UNCHANGED <<memoryVars, aggregatorVars, learningVars>>

\* client.callTool settles for one agent of the batch; Promise.all rejects on
\* the first executeOnAgent that raises
AgentCallDone(i, ok) ==
  /\ proc.pc = "waiting"
  /\ i \in 1..Len(proc.slots)
  /\ proc.slots[i] = "pending"
  /\ LET cs == [conns EXCEPT ![proc.agentIds[i]].status = callToolSettle(ok)]
         step == executeOnAgentsStep([proc EXCEPT !.slots[i] = executeOnAgentSettle(ok)], cs)
     IN IF executeOnAgentSettle(ok) = "thrown"
        THEN /\ proc' = EmptyProc
             /\ conns' = cs
             /\ ret' = Returned("process", "", "raised", "agent")
        ELSE /\ proc' = step.proc
             /\ conns' = step.conns
             /\ ret' = step.ret
  /\ UNCHANGED <<isInitialized, memoryInitialized, lifecycle, connections, dAll>>
  /\ UNCHANGED routerVars
  /\ UNCHANGED <<memoryVars, aggregatorVars, learningVars>>

\* a memoryManager.store of updateMemory settles
MemoryStoreDone(ok) ==
  /\ proc.pc = "store"
  /\ LET step == updateMemoryStep(proc, conns, ok)
     IN /\ proc' = step.proc
        /\ conns' = step.conns
        /\ ret' = step.ret
  /\ UNCHANGED <<isInitialized, memoryInitialized, lifecycle, connections, dAll>>
  /\ UNCHANGED routerVars
  /\ UNCHANGED <<memoryVars, aggregatorVars, learningVars>>

\* XORNGCore.searchMemory: memoryManager.search rejects when the memory
\* system is not initialized; the tiers' searches catch their own failures
SearchMemory ==
  /\ ret' = Returned("searchMemory", "",
                     IF memoryInitialized THEN "ok" ELSE "NotInitialized", "")
  /\ UNCHANGED <<isInitialized, memoryInitialized, lifecycle, conns, connections, dAll, proc>>
  /\ UNCHANGED routerVars
  /\ UNCHANGED <<memoryVars, aggregatorVars, learningVars>>

\* the values of the parameter of clearMemory
ClearTypes == {"short-term", "long-term", "all", "undefined"}

\* whether clearMemory(type) calls memoryManager.clearShortTerm()
clearsShortTerm(type) == type \in {"short-term", "all", "undefined"}

\* XORNGCore.clearMemory(type): clearShortTerm rejects when the memory system
\* is not initialized and lets a failure of the store through; the type
\* long-term does nothing
ClearMemory(type, ok) ==
  /\ IF ~clearsShortTerm(type)
     THEN /\ ret' = Returned("clearMemory", type, "ok", "")
          /\ UNCHANGED redis
     ELSE IF ~memoryInitialized
          THEN /\ ret' = Returned("clearMemory", type, "NotInitialized", "")
               /\ UNCHANGED redis
          ELSE IF ok /\ memClient["short-term"]
               THEN /\ ret' = Returned("clearMemory", type, "ok", "")
                    /\ redis' = clear(redis)
               ELSE /\ ret' = Returned("clearMemory", type,
                                       IF memClient["short-term"] THEN "raised" ELSE "ok", "")
                    /\ UNCHANGED redis
  /\ UNCHANGED <<isInitialized, memoryInitialized, lifecycle, conns, connections, dAll, proc>>
  /\ UNCHANGED routerVars
  /\ UNCHANGED <<memClient, memOps, memRet, memUsed, memDeleted, now>>
  /\ UNCHANGED <<aggregatorVars, learningVars>>

(***************************************************************************)
(* The orchestration: XORNGCore with its registry, and a host that marks   *)
(* registered connections virtual.                                         *)
(***************************************************************************)
Next ==
  \/ Initialize
  \/ InitializeDone(TRUE)
  \/ \E config \in CoreConfigs : RegisterSubAgent(config)
  \/ \E id \in Ids : SetVirtual(id)
  \/ Shutdown
  \/ \E id \in Ids, ok \in BOOLEAN : DisconnectAllCloseDone(id, ok)
  \/ \E failed \in {{}, Tiers} : ShutdownDone(failed)
  \/ \E request \in Requests : Process(request)
  \/ \E ok \in BOOLEAN : MemorySearchDone(ok)
  \/ \E i \in 1..4, ok \in BOOLEAN : AgentCallDone(i, ok)
  \/ \E ok \in BOOLEAN : MemoryStoreDone(ok)

Spec == Init /\ [][Next]_vars

(***************************************************************************)
(* The entry points of XORNGCore over its whole life, with one agent and a *)
(* memory store that may be unreachable.                                   *)
(***************************************************************************)
FacadeNext ==
  \/ Initialize
  \/ \E reachable \in BOOLEAN : InitializeDone(reachable)
  \/ \E config \in {c \in CoreConfigs : c.id = "a1"} : RegisterSubAgent(config)
  \/ SetVirtual("a1")
  \/ Shutdown
  \/ \E ok \in BOOLEAN : DisconnectAllCloseDone("a1", ok)
  \/ \E failed \in {{}, Tiers} : ShutdownDone(failed)
  \/ \E request \in Requests : Process(request)
  \/ \E ok \in BOOLEAN : MemorySearchDone(ok)
  \/ \E ok \in BOOLEAN : AgentCallDone(1, ok)
  \/ \E ok \in BOOLEAN : MemoryStoreDone(ok)
  \/ SearchMemory
  \/ \E type \in ClearTypes, ok \in BOOLEAN : ClearMemory(type, ok)

SpecFacade == Init /\ [][FacadeNext]_vars

(***************************************************************************)
(* One connection used by a host through the registry: every operation of  *)
(* SubAgentManager on the agent id a1; a2 stays unknown to the registry.   *)
(***************************************************************************)
ConnectionNext ==
  \/ \E config \in {c \in Configs : c.id = "a1"} : RegisterAgent(config)
  \/ \E ok \in BOOLEAN : ConnectDone("a1", ok)
  \/ \E ok \in BOOLEAN : DiscoverDone("a1", ok)
  \/ SetVirtual("a1")
  \/ \E id \in Ids : CallTool(id)
  \/ \E ok \in BOOLEAN : CallToolDone("a1", ok)
  \/ \E id \in Ids : UnregisterAgent(id)
  \/ \E ok \in BOOLEAN : UnregisterDone("a1", ok)
  \/ DisconnectAll
  \/ \E ok \in BOOLEAN : DisconnectAllCloseDone("a1", ok)

SpecConnection == Init /\ [][ConnectionNext]_vars

(***************************************************************************)
(* The registry with several agents: registration, removal, disconnectAll. *)
(***************************************************************************)
RegistryNext ==
  \/ \E config \in Configs : RegisterAgent(config)
  \/ \E id \in Ids, ok \in BOOLEAN : ConnectDone(id, ok)
  \/ \E id \in Ids, ok \in BOOLEAN : DiscoverDone(id, ok)
  \/ \E id \in Ids : UnregisterAgent(id)
  \/ \E id \in Ids, ok \in BOOLEAN : UnregisterDone(id, ok)
  \/ DisconnectAll
  \/ \E id \in Ids, ok \in BOOLEAN : DisconnectAllCloseDone(id, ok)

SpecRegistry == Init /\ [][RegistryNext]_vars

(***************************************************************************)
(* MemoryManager and the three tiers.                                      *)
(*                                                                         *)
(* A step runs the Redis commands a tier sends between two awaits on the   *)
(* server that matter to another party: the primary record, then the       *)
(* indexes.  The access time and the source of an entry are written and    *)
(* never read, and are left out.                                           *)
(***************************************************************************)
MemReturned(o, outcome, entry, entries) ==
  [op |-> o.op, tier |-> o.tier, id |-> o.id, outcome |-> outcome, entry |-> entry,
   entries |-> entries, input |-> o.input, query |-> o.query, limit |-> o.limit,
   options |-> o.options, entityId |-> o.entityId]

\* the operation record of a call
MemCall(op, tier, id) ==
  [NoMemOp EXCEPT !.op = op, !.tier = tier, !.id = id]

\* the sum of the access counts the store holds
RECURSIVE SumAccess(_, _)
SumAccess(r, keys) ==
  IF keys = {} THEN 0
  ELSE LET k == CHOOSE x \in keys : TRUE
       IN r.rec[k[1]][k[2]].accessCount + SumAccess(r, keys \ {k})

\* a step of a memory operation leaves the rest of the system alone
MemoryFrame ==
  /\ UNCHANGED coreVars
  /\ UNCHANGED routerVars
  /\ UNCHANGED <<aggregatorVars, learningVars>>

\* MemoryManager.initialize(): the three tiers connect to the one Redis URL;
\* a tier whose connect fails keeps a null client and swallows the failure
MemoryManagerInitialize(reachable) ==
  /\ \A c \in Callers : memOps[c].op = "none"
  /\ IF memoryInitialized
     THEN /\ memRet' = [NoMemReturn EXCEPT !.op = "initialize", !.outcome = "already"]
          /\ UNCHANGED <<memoryInitialized, memClient>>
     ELSE /\ memoryInitialized' = TRUE
          /\ memClient' = [t \in Tiers |-> reachable]
          /\ memRet' = [NoMemReturn EXCEPT !.op = "initialize", !.outcome = "ok"]
  /\ UNCHANGED <<redis, memOps, memUsed, memDeleted, now>>
  /\ MemoryFrame

\* MemoryManager.store(input), up to the first command of the tier, with the
\* id that crypto.randomUUID gives taken from ids
memStore(c, input, ids) ==
  /\ memOps[c].op = "none"
  /\ IF ~memoryInitialized
     THEN /\ memRet' = MemReturned([MemCall("store", input.type, 0) EXCEPT !.input = input],
                                   "NotInitialized", NoEntry, << >>)
          /\ UNCHANGED <<memOps, memUsed>>
     ELSE \E id \in ids \ memUsed :
            LET o == [MemCall("store", input.type, id) EXCEPT
                        !.input = input, !.entry = newEntry(input, id, now), !.pc = "set"]
            IN /\ memUsed' = memUsed \cup {id}
               /\ IF memClient[input.type]
                  THEN /\ memOps' = [memOps EXCEPT ![c] = o]
                       /\ memRet' = NoMemReturn
                  ELSE /\ memRet' = MemReturned(o, "ok", o.entry, << >>)
                       /\ UNCHANGED memOps
  /\ UNCHANGED <<memoryInitialized, redis, memClient, memDeleted, now>>
  /\ MemoryFrame

\* MemoryManager.store(input), up to the first command of the tier
MemStore(c, input) ==
  /\ Cardinality(memUsed) < MaxEntries
  /\ memStore(c, input, MemIds)

\* store: the primary record is written
MemStoreRecord(c) ==
  /\ memOps[c].op = "store" /\ memOps[c].pc = "set"
  /\ redis' = storeRecord(redis, memOps[c].entry, now)
  /\ memOps' = [memOps EXCEPT ![c].pc = "index"]
  /\ memRet' = NoMemReturn
  /\ UNCHANGED <<memoryInitialized, memClient, memUsed, memDeleted, now>>
  /\ MemoryFrame

\* store: the indexes are written, and store returns the entry
MemStoreIndexes(c) ==
  /\ memOps[c].op = "store" /\ memOps[c].pc = "index"
  /\ redis' = storeIndexes(redis, memOps[c].entry)
  /\ memOps' = [memOps EXCEPT ![c] = NoMemOp]
  /\ memRet' = MemReturned(memOps[c], "ok", memOps[c].entry, << >>)
  /\ UNCHANGED <<memoryInitialized, memClient, memUsed, memDeleted, now>>
  /\ MemoryFrame

\* MemoryManager.get(id, type), up to the first command of the tier
MemGet(c, id, tier) ==
  /\ memOps[c].op = "none"
  /\ SumAccess(redis, Tiers \X MemIds) < MaxGets
  /\ IF ~memoryInitialized
     THEN /\ memRet' = MemReturned(MemCall("get", tier, id), "NotInitialized", NoEntry, << >>)
          /\ UNCHANGED memOps
     ELSE IF memClient[tier]
          THEN /\ memOps' = [memOps EXCEPT ![c] = [MemCall("get", tier, id) EXCEPT !.pc = "read"]]
               /\ memRet' = NoMemReturn
          ELSE /\ memRet' = MemReturned(MemCall("get", tier, id), "ok", NoEntry, << >>)
               /\ UNCHANGED memOps
  /\ UNCHANGED <<memoryInitialized, redis, memClient, memUsed, memDeleted, now>>
  /\ MemoryFrame

\* get: the record is read; get returns null when there is none
MemGetRead(c) ==
  /\ memOps[c].op \in {"get", "getByEntityId"} /\ memOps[c].pc = "read"
  /\ LET data == redisGet(redis, memOps[c].tier, memOps[c].id)
     IN IF data = NoEntry
        THEN /\ memOps' = [memOps EXCEPT ![c] = NoMemOp]
             /\ memRet' = MemReturned(memOps[c], "ok", NoEntry, << >>)
        ELSE /\ memOps' = [memOps EXCEPT ![c].entry = parse(data), ![c].pc = "write"]
             /\ memRet' = NoMemReturn
  /\ UNCHANGED <<memoryInitialized, redis, memClient, memUsed, memDeleted, now>>
  /\ MemoryFrame

\* get: the accessed entry is written back; the short-term and the entity
\* tier return it
MemGetWrite(c) ==
  /\ memOps[c].op \in {"get", "getByEntityId"} /\ memOps[c].pc = "write"
  /\ redis' = getWrite(redis, memOps[c].tier, memOps[c].entry, now)
  /\ IF memOps[c].tier = "long-term"
     THEN /\ memOps' = [memOps EXCEPT ![c].pc = "zadd"]
          /\ memRet' = NoMemReturn
     ELSE /\ memOps' = [memOps EXCEPT ![c] = NoMemOp]
          /\ memRet' = MemReturned(memOps[c], "ok", getAccessed(memOps[c].entry), << >>)
  /\ UNCHANGED <<memoryInitialized, memClient, memUsed, memDeleted, now>>
  /\ MemoryFrame

\* LongTermMemory.get: the relevance index takes the raised relevance, and
\* get returns the entry with it
MemGetRank(c) ==
  /\ memOps[c].op = "get" /\ memOps[c].pc = "zadd"
  /\ redis' = [redis EXCEPT !.ltmRelevance =
                 zAdd(@, memOps[c].id, newRelevance(memOps[c].entry))]
  /\ memOps' = [memOps EXCEPT ![c] = NoMemOp]
  /\ memRet' = MemReturned(memOps[c], "ok",
                  [getAccessed(memOps[c].entry) EXCEPT
                     !.relevance = newRelevance(memOps[c].entry)], << >>)
  /\ UNCHANGED <<memoryInitialized, memClient, memUsed, memDeleted, now>>
  /\ MemoryFrame

\* MemoryManager.delete(id, type), up to the first command of the tier
MemDelete(c, id, tier) ==
  /\ memOps[c].op = "none"
  /\ IF ~memoryInitialized
     THEN /\ memRet' = MemReturned(MemCall("delete", tier, id), "NotInitialized", NoEntry, << >>)
          /\ UNCHANGED <<memOps, memDeleted>>
     ELSE IF memClient[tier]
          THEN /\ memOps' = [memOps EXCEPT ![c] =
                   [MemCall("delete", tier, id) EXCEPT
                      !.pc = IF tier = "short-term" THEN "del" ELSE "read"]]
               /\ memRet' = NoMemReturn
               /\ UNCHANGED memDeleted
          ELSE /\ memRet' = MemReturned(MemCall("delete", tier, id), "ok", NoEntry, << >>)
               /\ UNCHANGED <<memOps, memDeleted>>
  /\ UNCHANGED <<memoryInitialized, redis, memClient, memUsed, now>>
  /\ MemoryFrame

\* delete on the long-term and the entity tier: the record is read
MemDeleteRead(c) ==
  /\ memOps[c].op = "delete" /\ memOps[c].pc = "read"
  /\ LET data == redisGet(redis, memOps[c].tier, memOps[c].id)
     IN memOps' = [memOps EXCEPT ![c].entry = IF data = NoEntry THEN NoEntry ELSE parse(data),
                                ![c].pc = IF data = NoEntry THEN "del" ELSE "unindex"]
  /\ memRet' = NoMemReturn
  /\ UNCHANGED <<memoryInitialized, redis, memClient, memUsed, memDeleted, now>>
  /\ MemoryFrame

\* delete: the id leaves the indexes the record read calls for
MemDeleteIndexes(c) ==
  /\ memOps[c].op = "delete" /\ memOps[c].pc = "unindex"
  /\ redis' = deleteIndexes(redis, memOps[c].tier, memOps[c].id, memOps[c].entry)
  /\ memOps' = [memOps EXCEPT ![c].pc = "del"]
  /\ memRet' = NoMemReturn
  /\ UNCHANGED <<memoryInitialized, memClient, memUsed, memDeleted, now>>
  /\ MemoryFrame

\* delete: the primary record is deleted
MemDeleteRecord(c) ==
  /\ memOps[c].op = "delete" /\ memOps[c].pc = "del"
  /\ redis' = redisDel(redis, memOps[c].tier, memOps[c].id)
  /\ memOps' = [memOps EXCEPT ![c].pc = "zrem",
                              ![c].found = redisGet(redis, memOps[c].tier, memOps[c].id) # NoEntry]
  /\ memRet' = NoMemReturn
  /\ UNCHANGED <<memoryInitialized, memClient, memUsed, memDeleted, now>>
  /\ MemoryFrame

\* delete: the id leaves the sorted set of the tier, and delete returns
MemDeleteRank(c) ==
  /\ memOps[c].op = "delete" /\ memOps[c].pc = "zrem"
  /\ redis' = deleteRank(redis, memOps[c].tier, memOps[c].id)
  /\ memOps' = [memOps EXCEPT ![c] = NoMemOp]
  /\ memRet' = MemReturned(memOps[c], "ok", NoEntry, << >>)
  /\ memDeleted' = IF memOps[c].found
                   THEN memDeleted \cup {<<memOps[c].tier, memOps[c].id>>}
                   ELSE memDeleted
  /\ UNCHANGED <<memoryInitialized, memClient, memUsed, now>>
  /\ MemoryFrame

\* search(query, limit, options) of one tier, up to its first command
MemSearch(c, tier, query, limit, options) ==
  /\ memOps[c].op = "none"
  /\ LET o == [MemCall("search", tier, 0) EXCEPT
                 !.query = query, !.limit = limit, !.options = options, !.pc = "candidates"]
     IN IF memClient[tier]
        THEN /\ memOps' = [memOps EXCEPT ![c] = o]
             /\ memRet' = NoMemReturn
        ELSE /\ memRet' = MemReturned(o, "ok", NoEntry, << >>)
             /\ UNCHANGED memOps
  /\ UNCHANGED <<memoryInitialized, redis, memClient, memUsed, memDeleted, now>>
  /\ MemoryFrame

\* search: the candidate ids are read from an index
MemSearchCandidates(c) ==
  /\ memOps[c].op = "search" /\ memOps[c].pc = "candidates"
  /\ memOps' = [memOps EXCEPT
                  ![c].candidates = searchCandidates(redis, memOps[c].tier, memOps[c].limit,
                                                     memOps[c].options),
                  ![c].pc = "fetch"]
  /\ memRet' = NoMemReturn
  /\ UNCHANGED <<memoryInitialized, redis, memClient, memUsed, memDeleted, now>>
  /\ MemoryFrame

\* search: the candidates are fetched and filtered, and search returns
MemSearchFetch(c) ==
  /\ memOps[c].op = "search" /\ memOps[c].pc = "fetch"
  /\ memOps' = [memOps EXCEPT ![c] = NoMemOp]
  /\ memRet' = MemReturned(memOps[c], "ok", NoEntry,
                  searchReturn(memOps[c].tier,
                               searchFetch(redis, memOps[c].tier, memOps[c].candidates,
                                           memOps[c].query, memOps[c].limit,
                                           memOps[c].options, << >>),
                               memOps[c].limit))
  /\ UNCHANGED <<memoryInitialized, redis, memClient, memUsed, memDeleted, now>>
  /\ MemoryFrame

\* the clock advances, and the server drops the short-term keys whose TTL
\* has run out
Tick ==
  /\ now < MaxTime
  /\ \E i \in MemIds : redis.expireAt[i] # NoScore
  /\ now' = now + 1
  /\ redis' = redisExpire(redis, now + 1)
  /\ memRet' = NoMemReturn
  /\ UNCHANGED <<memoryInitialized, memClient, memOps, memUsed, memDeleted>>
  /\ MemoryFrame

\* the calls of one caller after another on the three tiers, with the steps
\* of the call in flight; the clock stands still
MemoryNext ==
  \/ \E reachable \in BOOLEAN : MemoryManagerInitialize(reachable)
  \/ \E input \in MemoryInputs : MemStore("c1", input)
  \/ MemStoreRecord("c1")
  \/ MemStoreIndexes("c1")
  \/ \E id \in MemIds, tier \in Tiers : MemGet("c1", id, tier)
  \/ MemGetRead("c1")
  \/ MemGetWrite("c1")
  \/ MemGetRank("c1")
  \/ \E id \in MemIds, tier \in Tiers : MemDelete("c1", id, tier)
  \/ MemDeleteRead("c1")
  \/ MemDeleteIndexes("c1")
  \/ MemDeleteRecord("c1")
  \/ MemDeleteRank("c1")
  \/ \E s \in SearchCalls : MemSearch("c1", s.tier, s.query, s.limit, s.options)
  \/ MemSearchCandidates("c1")
  \/ MemSearchFetch("c1")

SpecMemory == Init /\ [][MemoryNext]_vars

\* the calls of one caller after another on the short-term tier, while the
\* clock runs
ShortTermNext ==
  \/ MemoryManagerInitialize(TRUE)
  \/ \E input \in {i \in MemoryInputs : i.type = "short-term"} : MemStore("c1", input)
  \/ MemStoreRecord("c1")
  \/ MemStoreIndexes("c1")
  \/ \E id \in MemIds : MemGet("c1", id, "short-term")
  \/ MemGetRead("c1")
  \/ MemGetWrite("c1")
  \/ \E id \in MemIds : MemDelete("c1", id, "short-term")
  \/ MemDeleteRecord("c1")
  \/ MemDeleteRank("c1")
  \/ \E s \in {x \in SearchCalls : x.tier = "short-term"} :
        MemSearch("c1", s.tier, s.query, s.limit, s.options)
  \/ MemSearchCandidates("c1")
  \/ MemSearchFetch("c1")
  \/ Tick

SpecShortTerm == Init /\ [][ShortTermNext]_vars

(***************************************************************************)
(* XORNGCore and the tiers when the Redis server cannot be reached at      *)
(* initialization: every tier keeps a null client.                         *)
(***************************************************************************)
UnavailableNext ==
  \/ Initialize
  \/ InitializeDone(FALSE)
  \/ \E config \in {c \in CoreConfigs : c.id = "a1"} : RegisterSubAgent(config)
  \/ SetVirtual("a1")
  \/ \E request \in Requests : Process(request)
  \/ \E ok \in BOOLEAN : MemorySearchDone(ok)
  \/ \E ok \in BOOLEAN : AgentCallDone(1, ok)
  \/ \E ok \in BOOLEAN : MemoryStoreDone(ok)
  \/ \E input \in MemoryInputs : MemStore("c1", input)
  \/ \E tier \in Tiers : MemGet("c1", 1, tier)
  \/ \E tier \in Tiers : MemDelete("c1", 1, tier)
  \/ \E s \in {x \in SearchCalls : x.options = NoOptions} :
        MemSearch("c1", s.tier, s.query, s.limit, s.options)

SpecUnavailable == Init /\ [][UnavailableNext]_vars

(***************************************************************************)
(* Aggregator, called on result lists of up to MaxResults results.         *)
(***************************************************************************)
\* a result joins the list handed to aggregate
AggregatorCollect(result) ==
  /\ aggResponse = NoAggregation
  /\ Len(aggResults) < MaxResults
  /\ aggResults' = Append(aggResults, result)
  /\ UNCHANGED aggResponse
  /\ UNCHANGED <<coreVars, memoryInitialized>>
  /\ UNCHANGED routerVars
  /\ UNCHANGED <<memoryVars, learningVars>>

\* Aggregator.aggregate(requestId, results, strategy)
Aggregate(strategy) ==
  /\ aggResponse = NoAggregation
  /\ aggResponse' = aggregate(aggResults, strategy)
  /\ UNCHANGED aggResults
  /\ UNCHANGED <<coreVars, memoryInitialized>>
  /\ UNCHANGED routerVars
  /\ UNCHANGED <<memoryVars, learningVars>>

AggregatorNext ==
  \/ \E result \in SubAgentResults : AggregatorCollect(result)
  \/ \E strategy \in AggregationStrategies : Aggregate(strategy)

SpecAggregator == Init /\ [][AggregatorNext]_vars

(***************************************************************************)
(* LearningService, constructed without a memory manager.                  *)
(***************************************************************************)
LearningFrame ==
  /\ UNCHANGED <<coreVars, memoryInitialized>>
  /\ UNCHANGED routerVars
  /\ UNCHANGED <<memoryVars, aggregatorVars>>

\* n calls of recordFixAttempt(attempt), one after another: what they leave
\* in the service
recordFixAttemptLocal(attempt, n) ==
  /\ fixAttempts' = capAttempts(pushRecords(fixAttempts, attempt, n))
  /\ LET updated == updateMetrics(metrics, attempt, n, fixAttempts')
     IN IF learns(attempt)
        THEN /\ fixPatterns' = learnFromSuccess(fixPatterns, attempt)
             /\ metrics' = [updated EXCEPT !.totalPatternsLearned = Len(fixPatterns')]
        ELSE /\ fixPatterns' = fixPatterns
             /\ metrics' = updated
  /\ recordedAttempts' = pushRecords(recordedAttempts, attempt, n)
  /\ learningCalls' = learningCalls + 1
  /\ UNCHANGED similar

\* n calls of recordFixAttempt(attempt), one after another
recordFixAttempt(attempt, n) ==
  /\ recordFixAttemptLocal(attempt, n)
  /\ LearningFrame

\* recordFixAttempt(attempt), on the pattern store
RecordFixAttempt(attempt) ==
  /\ learningCalls < MaxLearnCalls
  /\ recordFixAttempt(attempt, 1)

\* recordPatternFailure(patternId)
RecordPatternFailure(patternId) ==
  /\ learningCalls < MaxLearnCalls
  /\ fixPatterns' = patternFailure(fixPatterns, patternId)
  /\ learningCalls' = learningCalls + 1
  /\ UNCHANGED <<fixAttempts, metrics, recordedAttempts, similar>>
  /\ LearningFrame

\* the pattern store: attempts recorded one at a time, and pattern failures
LearningNext ==
  \/ \E attempt \in LearningAttempts : RecordFixAttempt(attempt)
  \/ \E patternId \in FailedPatternIds : RecordPatternFailure(patternId)

SpecLearning == Init /\ [][LearningNext]_vars

\* n calls of recordFixAttempt(attempt) in a row, on the attempt log; an
\* attempt that learnFromSuccess takes up is recorded one call at a time
RecordFixAttempts(attempt, n) ==
  /\ learningCalls < MaxCalls
  /\ n = 1 \/ ~learns(attempt)
  /\ recordFixAttempt(attempt, n)

\* the attempts the attempt log is driven with
LoggedAttempts ==
  {AttemptFailed, AttemptUnfixed, attemptOf(FailureLint, TextErrorLine7, TRUE, FixedFile)}

\* the attempt log: attempts recorded one at a time and in batches
AttemptLogNext ==
  \E attempt \in LoggedAttempts, n \in BatchSizes : RecordFixAttempts(attempt, n)

SpecAttemptLog == Init /\ [][AttemptLogNext]_vars

(***************************************************************************)
(* The long-term tier under store and search alone.                        *)
(***************************************************************************)
\* the entries stored: the most relevant one, one of its project without
\* the tag, and one of little relevance with another content
LongTermInputs ==
  {[type |-> "long-term", content |-> ContentFoo, relevance |-> 90,
    tags |-> {"t1"}, projectId |-> "p1", entityType |-> "", entityId |-> ""],
   [type |-> "long-term", content |-> ContentFoo, relevance |-> Undefined,
    tags |-> {}, projectId |-> "p1", entityType |-> "", entityId |-> ""],
   [type |-> "long-term", content |-> ContentBar, relevance |-> 10,
    tags |-> {"t1"}, projectId |-> "", entityType |-> "", entityId |-> ""]}

\* the long-term searches called
LongTermSearchCalls ==
  {[tier |-> "long-term", query |-> QueryFoo, limit |-> 1, options |-> NoOptions],
   [tier |-> "long-term", query |-> QueryZ, limit |-> 2,
    options |-> [projectId |-> "", tags |-> {"t1"}, entityType |-> ""]],
   [tier |-> "long-term", query |-> QueryFoo, limit |-> 2,
    options |-> [projectId |-> "p1", tags |-> {}, entityType |-> ""]],
   [tier |-> "long-term", query |-> QueryFoo, limit |-> 2,
    options |-> [projectId |-> "p1", tags |-> {"t1"}, entityType |-> ""]]}

\* MemoryManager.store(input) of a long-term entry
MemStoreLongTerm(c, input) ==
  /\ Cardinality(memUsed) < MaxStored
  /\ memStore(c, input, KeyIds)

LongTermSearchNext ==
  \/ MemoryManagerInitialize(TRUE)
  \/ \E input \in LongTermInputs : MemStoreLongTerm("c1", input)
  \/ MemStoreRecord("c1")
  \/ MemStoreIndexes("c1")
  \/ \E s \in LongTermSearchCalls : MemSearch("c1", s.tier, s.query, s.limit, s.options)
  \/ MemSearchCandidates("c1")
  \/ MemSearchFetch("c1")

SpecLongTermSearch == Init /\ [][LongTermSearchNext]_vars

(***************************************************************************)
(* The entity tier under store, delete and getByEntityId.                  *)
(***************************************************************************)
\* HGET xorng:entity:lookup entityId: the memory id, or null (0)
hGet(r, entityId) == r.entLookup[entityId]
\* EntityMemory.getByEntityId(entityId), up to the HGET
MemGetByEntityId(c, entityId) ==
  /\ memOps[c].op = "none"
  /\ SumAccess(redis, Tiers \X MemIds) < MaxGets
  /\ IF memClient["entity"]
     THEN /\ memOps' = [memOps EXCEPT ![c] =
                          [MemCall("getByEntityId", "entity", 0) EXCEPT
                             !.entityId = entityId, !.pc = "lookup"]]
          /\ memRet' = NoMemReturn
     ELSE /\ memRet' = MemReturned([MemCall("getByEntityId", "entity", 0) EXCEPT
                                      !.entityId = entityId], "ok", NoEntry, << >>)
          /\ UNCHANGED memOps
  /\ UNCHANGED <<memoryInitialized, redis, memClient, memUsed, memDeleted, now>>
  /\ MemoryFrame

\* getByEntityId: the lookup table answers; without a memory id the call
\* returns null, with one it goes on as get(memoryId)
MemLookup(c) ==
  /\ memOps[c].op = "getByEntityId" /\ memOps[c].pc = "lookup"
  /\ LET memoryId == hGet(redis, memOps[c].entityId)
     IN IF memoryId = 0
        THEN /\ memOps' = [memOps EXCEPT ![c] = NoMemOp]
             /\ memRet' = MemReturned(memOps[c], "ok", NoEntry, << >>)
        ELSE /\ memOps' = [memOps EXCEPT ![c].id = memoryId, ![c].pc = "read"]
             /\ memRet' = NoMemReturn
  /\ UNCHANGED <<memoryInitialized, redis, memClient, memUsed, memDeleted, now>>
  /\ MemoryFrame

EntityNext ==
  \/ MemoryManagerInitialize(TRUE)
  \/ \E input \in {i \in MemoryInputs : i.type = "entity"} : MemStore("c1", input)
  \/ MemStoreRecord("c1")
  \/ MemStoreIndexes("c1")
  \/ \E id \in MemIds : MemDelete("c1", id, "entity")
  \/ MemDeleteRead("c1")
  \/ MemDeleteIndexes("c1")
  \/ MemDeleteRecord("c1")
  \/ MemDeleteRank("c1")
  \/ \E e \in DOMAIN EmptyRedis.entLookup : MemGetByEntityId("c1", e)
  \/ MemLookup("c1")
  \/ MemGetRead("c1")
  \/ MemGetWrite("c1")

SpecEntity == Init /\ [][EntityNext]_vars

(***************************************************************************)
(* Tool calls that overlap on one connection: a host, or several process   *)
(* calls routed to the same agent, call callTool again before the earlier  *)
(* client.callTool has settled.                                            *)
(***************************************************************************)
\* a call while fewer than MaxInFlight direct calls are in flight on the agent
CallToolOverlapping(agentId) ==
  /\ callToolStarts(agentId) => conns[agentId].directCalls < MaxInFlight
  /\ callTool(agentId)

OverlapNext ==
  \/ \E config \in {c \in Configs : c.id = "a1"} : RegisterAgent(config)
  \/ \E ok \in BOOLEAN : ConnectDone("a1", ok)
  \/ \E ok \in BOOLEAN : DiscoverDone("a1", ok)
  \/ SetVirtual("a1")
  \/ \E id \in Ids : CallToolOverlapping(id)
  \/ \E ok \in BOOLEAN : CallToolDone("a1", ok)

SpecOverlap == Init /\ [][OverlapNext]_vars

(***************************************************************************)
(* Two callers whose get calls on the long-term and the entity tier        *)
(* overlap: each get is a read of the record, then a write of the record   *)
(* it has read with the access count raised, and the commands of the two   *)
(* callers reach the store in any order.                                   *)
(***************************************************************************)
OverlappingGetsNext ==
  \/ MemoryManagerInitialize(TRUE)
  \/ \E input \in {i \in MemoryInputs : i.type \in {"long-term", "entity"}} :
       MemStore("c1", input)
  \/ MemStoreRecord("c1")
  \/ MemStoreIndexes("c1")
  \/ \E c \in Callers, id \in MemIds, tier \in {"long-term", "entity"} : MemGet(c, id, tier)
  \/ \E c \in Callers : MemGetRead(c)
  \/ \E c \in Callers : MemGetWrite(c)
  \/ \E c \in Callers : MemGetRank(c)

SpecOverlappingGets == Init /\ [][OverlappingGetsNext]_vars

(***************************************************************************)
(* LearningService, constructed with a memory manager: a successful        *)
(* attempt with fixes is also stored in long-term memory, and              *)
(* findSimilarPatterns also searches it.  The service is called by one     *)
(* caller, one call at a time, so the commands of a memory call are one    *)
(* step with the call.  A new service on the same store (a restart, or a   *)
(* second process) starts with an empty Map.                               *)
(***************************************************************************)
TextRunLintFailed12 ==
  <<"r", "u", "n", " ", "l", "i", "n", "t", " ", "f", "a", "i", "l", "e",
    "d", " ", "a", "t", " ", "l", "i", "n", "e", " ", "1", "2">>
TextRunLintFailed7 ==
  <<"r", "u", "n", " ", "l", "i", "n", "t", " ", "f", "a", "i", "l", "e",
    "d", " ", "a", "t", " ", "l", "i", "n", "e", " ", "7">>
TextRunLintFailedTwice ==
  <<"r", "u", "n", " ", "l", "i", "n", "t", " ", "f", "a", "i", "l", "e",
    "d", " ", "a", "t", " ", "l", "i", "n", "e", " ", "1", "2", " ", "t",
    "w", "i", "c", "e">>
TextFailedAtLine ==
  <<"f", "a", "i", "l", "e", "d", " ", "a", "t", " ", "l", "i", "n", "e">>
\* the one fix of the attempts, by its file
FixedFileText == <<<<"a", ".", "t", "s">>>>

\* the attempts the service with memory is driven with
StoredAttempts ==
  {attemptOf(FailureLint, TextRunLintFailed12, TRUE, FixedFileText),
   attemptOf(FailureLint, TextRunLintFailed7, TRUE, FixedFileText),
   attemptOf(FailureLint, TextRunLintFailedTwice, TRUE, FixedFileText),
   attemptOf(FailureTest, TextRunLintFailed12, TRUE, FixedFileText)}
\* the calls of findSimilarPatterns; 5 is the default limit
SimilarCalls ==
  [failureType : FailureTypes, errorPattern : {TextFailedAtLine}, limit : {1, 5}]

LearningMemoryFrame ==
  /\ UNCHANGED <<coreVars, memoryInitialized>>
  /\ UNCHANGED routerVars
  /\ UNCHANGED <<memClient, memOps, memRet, memDeleted, now>>
  /\ UNCHANGED aggregatorVars

\* recordFixAttempt(attempt) with a memory manager: learnFromSuccess stores
\* the record; a store that raises (not initialized) is logged.  The ids
\* are given out in their order, so that the tag sets list the records in
\* the order they were stored in
RecordFixAttemptStored(attempt) ==
  /\ learningCalls < MaxLearnCalls
  /\ Cardinality(memUsed) < MaxStored
  /\ recordFixAttemptLocal(attempt, 1)
  /\ IF learns(attempt) /\ memoryInitialized
     THEN \E id \in {i \in KeyIds \ memUsed : \A j \in KeyIds \ memUsed : i <= j} :
            /\ memUsed' = memUsed \cup {id}
            /\ redis' = IF memClient["long-term"]
                        THEN storePattern(redis, attempt, id, now) ELSE redis
     ELSE UNCHANGED <<redis, memUsed>>
  /\ LearningMemoryFrame

\* findSimilarPatterns(failureType, errorPattern, limit) with a memory
\* manager; a search that raises (not initialized) is logged
FindSimilarPatterns(failureType, errorPattern, limit) ==
  /\ learningCalls < MaxLearnCalls
  /\ LET memoryResults ==
           IF memoryInitialized
           THEN searchLongTerm(redis, failureType \o <<" ">> \o errorPattern, limit,
                               PatternSearchOptions)
           ELSE << >>
     IN /\ similar' = [called |-> TRUE, failureType |-> failureType,
                       errorPattern |-> errorPattern, limit |-> limit,
                       ranked |-> findSimilarPatterns(fixPatterns, memoryResults,
                                                      failureType, errorPattern, limit),
                       patterns |-> fixPatterns]
        /\ metrics' = [metrics EXCEPT !.patternHitRate =
                         @ + Len(memoryCandidates(fixPatterns, memoryResults, failureType))]
  /\ learningCalls' = learningCalls + 1
  /\ UNCHANGED <<fixPatterns, fixAttempts, recordedAttempts>>
  /\ LearningFrame

\* new LearningService({memoryManager}) on the store of the earlier one
NewLearningService ==
  /\ learningCalls < MaxLearnCalls
  /\ fixPatterns' = << >>
  /\ fixAttempts' = << >>
  /\ metrics' = InitialMetrics
  /\ recordedAttempts' = << >>
  /\ similar' = NoSimilar
  /\ learningCalls' = learningCalls + 1
  /\ LearningFrame

SimilarNext ==
  \/ MemoryManagerInitialize(TRUE)
  \/ \E attempt \in StoredAttempts : RecordFixAttemptStored(attempt)
  \/ RecordPatternFailure(generatePatternId(FailureLint, TextRunLintFailed12))
  \/ \E call \in SimilarCalls :
       FindSimilarPatterns(call.failureType, call.errorPattern, call.limit)
  \/ NewLearningService

SpecSimilar == Init /\ [][SimilarNext]_vars

(***************************************************************************)
(* The router alone: route() on agent snapshots of up to MaxAgents agents. *)
(* The status of a snapshot agent is the SubAgent.status the registry      *)
(* leaves: idle after a virtual registration or mark, else disconnected.   *)
(***************************************************************************)
AgentIdAt == <<"a1", "a2", "a3", "a4", "a5", "a6">>

RouterAgentProfiles ==
  {[type |-> "knowledge", capabilities |-> {"explanation"}],
   [type |-> "task", capabilities |-> {"test-execution"}],
   [type |-> "validator", capabilities |-> {"api-analysis"}],
   [type |-> "dynamic", capabilities |-> {}]}

RouterRequests ==
  [prompt : {PromptBuildApi, PromptSecurityReview, PromptHello},
   preferredAgents : {{}, {"a3"}, {"a2", "a3"}},
   excludeAgents : {{}, {"a1"}},
   context : {NoContext},
   includeMemory : {TRUE}]

\* one more agent in the snapshot, before it is routed on
RouterRegister(profile, status) ==
  /\ routerRequest = NoRequest
  /\ Len(routerAgents) < MaxAgents
  /\ routerAgents' = Append(routerAgents,
       [id |-> AgentIdAt[Len(routerAgents) + 1],
        type |-> profile.type,
        status |-> status,
        capabilities |-> profile.capabilities])
  /\ UNCHANGED <<routerRequest, routerDecision>>
  /\ UNCHANGED <<isInitialized, memoryInitialized, lifecycle, conns, connections, dAll,
                 proc, ret>>
  /\ UNCHANGED <<memoryVars, aggregatorVars, learningVars>>

\* Distributor.route(request) on the snapshot
RouterRoute(request) ==
  /\ routerRequest = NoRequest
  /\ routerRequest' = request
  /\ routerDecision' = route(request, routerAgents)
  /\ UNCHANGED routerAgents
  /\ UNCHANGED <<isInitialized, memoryInitialized, lifecycle, conns, connections, dAll,
                 proc, ret>>
  /\ UNCHANGED <<memoryVars, aggregatorVars, learningVars>>

RouteNext ==
  \/ \E profile \in RouterAgentProfiles, status \in {"idle", "disconnected"} :
       RouterRegister(profile, status)
  \/ \E request \in RouterRequests : RouterRoute(request)

SpecRoute == Init /\ [][RouteNext]_vars

(***************************************************************************)
(* Properties.                                                             *)
(***************************************************************************)
\* the snapshot agent with the given id
RouterAgent(id) == CHOOSE a \in Range(routerAgents) : a.id = id

RouterSelected == Range(routerDecision.primaryAgents) \cup Range(routerDecision.secondaryAgents)

\* C1: the decision route returns has at most 2 primary and at most 2 secondary
\* agents, every selected id is a registered agent that is not listed in the
\* request's excludeAgents and whose status is not disconnected.
C1_RouteSelection ==
  /\ Len(routerDecision.primaryAgents) <= 2
  /\ Len(routerDecision.secondaryAgents) <= 2
  /\ \A id \in RouterSelected :
       /\ id \notin routerRequest.excludeAgents
       /\ \E a \in Range(routerAgents) : a.id = id /\ a.status # "disconnected"

\* C1 witness: two primary agents were taken out of three or more available
\* agents of the primary type while an excluded agent and a disconnected agent
\* of that type were passed over.
C1_Witness ==
  /\ Len(routerDecision.primaryAgents) = 2
  /\ LET t == RouterAgent(routerDecision.primaryAgents[1]).type
     IN /\ Cardinality({a \in Range(routerAgents) :
                          /\ a.type = t
                          /\ a.status # "disconnected"
                          /\ a.id \notin routerRequest.excludeAgents}) >= 3
        /\ \E a \in Range(routerAgents) :
             a.type = t /\ (a.status = "disconnected" \/ a.id \in routerRequest.excludeAgents)

\* the ids of the process() call whose executeOnAgent gave a result
OkIds(ids, slots) == {ids[i] : i \in {j \in 1..Len(slots) : slots[j] = "ok"}}

\* the results are exactly the results of the calls that succeeded
ExactlySucceeded(ids, slots, results) ==
  /\ Len(slots) = Len(ids)
  /\ \A i \in 1..Len(slots) : slots[i] \in {"ok", "failed", "missing", "notconnected"}
  /\ {results[k].agentId : k \in 1..Len(results)} = OkIds(ids, slots)
  /\ Len(results) = Cardinality(OkIds(ids, slots))

\* C2: process collects the results only when every call of the decision has
\* settled; a call that throws or a missing connection gives no result and
\* never makes process fail, so the aggregated results are exactly the results
\* of the calls that succeeded.
C2_WaitAllPartialFailure ==
  /\ proc.pc = "waiting" => Len(proc.slots) = Len(proc.agentIds)
  /\ proc.aggregated => ExactlySucceeded(proc.agentIds, proc.slots, proc.results)
  /\ ret.op = "process" => ret.outcome \in {"ok", "NotInitialized"}
  /\ (ret.op = "process" /\ ret.outcome = "ok") =>
       /\ ret.response.present
       /\ ExactlySucceeded(ret.response.agentIds, ret.response.slots,
                           ret.response.subAgentResults)

\* C2 witness: process has returned a response built from two dispatched
\* agents of which one succeeded and the other threw.
C2_Witness ==
  /\ ret.op = "process"
  /\ ret.outcome = "ok"
  /\ Len(ret.response.agentIds) = 2
  /\ \E i, j \in 1..2 : ret.response.slots[i] = "ok" /\ ret.response.slots[j] = "failed"
  /\ Len(ret.response.subAgentResults) = 1

\* C3: within one process call every memory query has completed before any
\* agent call starts, the results are aggregated only after every dispatched
\* call has settled, and the memory write starts only after the aggregation.
C3_StepOrder ==
  /\ (proc.slots # << >> /\ proc.request.includeMemory) => proc.memIdx = proc.nQueries
  /\ proc.pc = "memory" => (proc.slots = << >> /\ ~proc.aggregated)
  /\ proc.aggregated => \A i \in 1..Len(proc.slots) : proc.slots[i] # "pending"
  /\ (proc.storing # "none" \/ proc.stored # << >>) => proc.aggregated
  /\ proc.pc = "waiting" => (~proc.aggregated /\ proc.storing = "none")

\* C3 witness: the memory write is in flight after three memory queries, two
\* agent calls and the aggregation.
C3_Witness ==
  /\ proc.pc = "store"
  /\ proc.storing = "short-term"
  /\ proc.request.includeMemory
  /\ proc.memIdx = 3
  /\ proc.memoryContext # {}
  /\ Len(proc.slots) = 2
  /\ Len(proc.results) >= 1

\* the status of the connection of an id before and after a step
StatusStep(id) == <<conns[id].status, conns'[id].status>>

\* C4: the status of a registered connection changes only from disconnected to
\* idle on a successful connect or virtual mark, from idle to busy when a tool
\* call starts, from busy to idle when the call succeeds, from busy to error
\* when it fails, and to disconnected on a disconnect.
C4_StatusTransitions ==
  [][\A id \in Ids :
       (has(id) /\ conns[id].status # conns'[id].status) =>
         \/ /\ StatusStep(id) = <<"disconnected", "idle">>
            /\ ConnectDone(id, TRUE) \/ SetVirtual(id)
         \/ /\ StatusStep(id) = <<"idle", "busy">>
            /\ CallTool(id)
         \/ /\ StatusStep(id) = <<"busy", "idle">>
            /\ CallToolDone(id, TRUE)
         \/ /\ StatusStep(id) = <<"busy", "error">>
            /\ CallToolDone(id, FALSE)
         \/ /\ conns'[id].status = "disconnected"
            /\ UnregisterDone(id, TRUE) \/ DisconnectAllCloseDone(id, TRUE)]_vars

\* C5: once the status of a connection is error it stays error under callTool:
\* no tool call moves it to busy or back to idle.
C5_ErrorTerminal ==
  [][\A id \in Ids :
       (/\ has(id)
        /\ conns[id].status = "error"
        /\ CallTool(id) \/ \E ok \in BOOLEAN : CallToolDone(id, ok))
         => conns'[id].status = "error"]_vars

\* C6: after registerAgent with connectionType virtual the status of the
\* connection is idle, so that a callTool on it is not rejected.
C6_VirtualIdle ==
  [][(ret'.op = "registerAgent" /\ ret'.detail = "virtual") =>
       /\ conns'[ret'.id].status = "idle"
       /\ ~callToolStart(conns'[ret'.id].status).thrown]_vars

\* C7: when opening the channel or the capability discovery fails during
\* registerAgent, registerAgent returns without raising, the agent stays in the
\* registry and its status is error.
C7_ConnectFailureError ==
  [][(ret'.op = "registerAgent" /\ ret'.detail \in {"connectFailed", "discoveryFailed"}) =>
       /\ ret'.outcome = "ok"
       /\ ret'.id \in Range(connections')
       /\ conns'[ret'.id].status = "error"]_vars

\* C8: registerAgent with an id that is already in the registry fails with a
\* duplicate-agent error and leaves the registry and the connections
\* unchanged; the ids of the registry are unique in every state.
C8_DuplicateRejected ==
  /\ [](\A i, j \in 1..Len(connections) : connections[i] = connections[j] => i = j)
  /\ [][\A config \in Configs :
          (has(config.id) /\ RegisterAgent(config)) =>
            /\ ret' = Returned("registerAgent", config.id, "DuplicateAgent", "")
            /\ connections' = connections
            /\ conns' = conns]_vars
  /\ [][ret'.outcome = "DuplicateAgent" => (has(ret'.id) /\ conns' = conns)]_vars

\* C8 witness: a registration was rejected as a duplicate while the first
\* registration of that id was still connecting and another agent was
\* registered.
C8_Witness ==
  /\ ret.op = "registerAgent"
  /\ ret.outcome = "DuplicateAgent"
  /\ conns[ret.id].reg = "connect"
  /\ Len(connections) = 2

\* C9: callTool on a connection whose status is disconnected fails with a
\* not-connected error, forwards nothing and leaves the status disconnected;
\* callTool for an id unknown to the registry fails and changes no connection.
C9_NotConnected ==
  [][\A id \in Ids :
       CallTool(id) =>
         /\ (has(id) /\ conns[id].status = "disconnected") =>
              /\ ret' = Returned("callTool", id, "NotConnected", "")
              /\ conns'[id].directCalls = conns[id].directCalls
              /\ conns'[id].status = "disconnected"
         /\ ~has(id) =>
              /\ ret' = Returned("callTool", id, "AgentNotFound", "")
              /\ conns' = conns]_vars

\* C9 witness: a callTool on a registered, disconnected connection has just
\* been rejected as not connected, with no call forwarded.
C9_Witness ==
  /\ ret.op = "callTool"
  /\ ret.outcome = "NotConnected"
  /\ has(ret.id)
  /\ conns[ret.id].status = "disconnected"
  /\ conns[ret.id].directCalls = 0

\* C10: disconnectAll starts a disconnect on every registered connection,
\* never raises, also when some disconnects fail, and leaves the registry
\* empty when it completes.
C10_DisconnectAllBestEffort ==
  /\ [](ret.op = "disconnectAll" => (ret.outcome = "ok" /\ connections = << >>))
  /\ [](dAll.active => dAll.pending # {})
  /\ [][(~dAll.active /\ DisconnectAll) =>
          \/ dAll'.active /\ dAll'.pending = Range(connections)
          \/ connections = << >> /\ ret'.op = "disconnectAll"]_vars
  /\ [][dAll.active =>
          /\ dAll'.pending \subseteq dAll.pending
          /\ \A id \in dAll.pending \ dAll'.pending :
               \E ok \in BOOLEAN : DisconnectAllCloseDone(id, ok)
          /\ ~dAll'.active => (connections' = << >> /\ ret'.op = "disconnectAll")]_vars

\* C10 witness: disconnectAll has completed on two connections, of which one
\* was closed and the other failed to close and kept its status.
C10_Witness ==
  /\ ret.op = "disconnectAll"
  /\ ret.outcome = "ok"
  /\ ret.detail = "someFailed"
  /\ connections = << >>
  /\ \E a, b \in Ids :
       /\ conns[a].created /\ conns[a].status = "disconnected"
       /\ conns[b].created /\ conns[b].status = "idle"

(***************************************************************************)
(* Memory tiers: indexes, delete, get.                                     *)
(***************************************************************************)
\* no memory operation is in flight
MemoryQuiescent == \A c \in Callers : memOps[c].op = "none"

\* the primary record of an id in a tier, and whether there is one
recordOf(tier, id) == redis.rec[tier][id]
hasRecord(tier, id) == redis.rec[tier][id] # NoEntry

\* every id an index of the short-term tier holds has a primary record, and
\* every primary record is in the index
ShortTermIndexAgrees ==
  \A i \in MemIds : i \in zMembers(redis.stmIndex) <=> hasRecord("short-term", i)

\* the tag sets, the project sets and the relevance ranking of the long-term
\* tier hold exactly the ids whose primary record calls for them, and the
\* score of the ranking is the relevance of the record
LongTermIndexAgrees ==
  \A i \in MemIds :
    /\ i \in zMembers(redis.ltmRelevance) <=> hasRecord("long-term", i)
    /\ hasRecord("long-term", i) =>
         redis.ltmRelevance[i] = recordOf("long-term", i).relevance
    /\ \A g \in DOMAIN redis.ltmTags :
         i \in redis.ltmTags[g] <=>
           (hasRecord("long-term", i) /\ g \in recordOf("long-term", i).tags)
    /\ \A p \in DOMAIN redis.ltmProject :
         i \in redis.ltmProject[p] <=>
           (hasRecord("long-term", i) /\ recordOf("long-term", i).projectId = p)

\* the type sets, the project sets, the lookup table and the timestamp index
\* of the entity tier hold exactly the ids whose primary record calls for them
EntityIndexAgrees ==
  /\ \A i \in MemIds :
       /\ i \in zMembers(redis.entIndex) <=> hasRecord("entity", i)
       /\ \A y \in DOMAIN redis.entType :
            i \in redis.entType[y] <=>
              (hasRecord("entity", i) /\ recordOf("entity", i).entityType = y)
       /\ \A p \in DOMAIN redis.entProject :
            i \in redis.entProject[p] <=>
              (hasRecord("entity", i) /\ recordOf("entity", i).projectId = p)
       /\ (hasRecord("entity", i) /\ recordOf("entity", i).entityId # "") =>
            redis.entLookup[recordOf("entity", i).entityId] = i
  /\ \A e \in DOMAIN redis.entLookup :
       redis.entLookup[e] # 0 =>
         (hasRecord("entity", redis.entLookup[e])
            /\ recordOf("entity", redis.entLookup[e]).entityId = e)

\* C11: whenever no memory operation is in flight, the secondary indexes of
\* each tier agree with the primary records: every id an index holds has a
\* primary record, every primary record is in each index its metadata calls
\* for, and the score in the relevance ranking is the record's relevance.
C11_IndexesAgree ==
  MemoryQuiescent =>
    (ShortTermIndexAgrees /\ LongTermIndexAgrees /\ EntityIndexAgrees)

\* the ids of the entries a memory operation returned
returnedIds(r) ==
  IF r.op = "search" THEN {r.entries[k].id : k \in 1..Len(r.entries)}
  ELSE IF r.op = "get" /\ r.entry # NoEntry THEN {r.entry.id} ELSE {}

\* C12: after delete(id) has completed on a tier, no later search (with a
\* tag, project or entity-type filter, or with none) and no later get on
\* that tier returns the entry with that id.
C12_DeletedNeverReturned ==
  \A i \in returnedIds(memRet) : <<memRet.tier, i>> \notin memDeleted

\* C12 witness: a search with a filter has returned an entry of a tier from
\* which another entry was deleted before.
C12_Witness ==
  /\ memRet.op = "search"
  /\ memRet.entries # << >>
  /\ \E i \in MemIds : <<memRet.tier, i>> \in memDeleted
  /\ memRet.options # NoOptions

\* the tiers whose entries do not expire
PersistentTiers == {"long-term", "entity"}

\* C13: on the long-term and entity tiers, store persists the content given
\* with accessCount 0; each get of the entry raises the persisted accessCount
\* by exactly 1 and returns the stored content with that count; no other
\* step changes the content or the accessCount of a record.  So after n get
\* calls the persisted accessCount is n.
C13_GetCountsAccess ==
  [][/\ \A c \in Callers :
          LET o == memOps[c]
          IN /\ (MemStoreIndexes(c) /\ o.tier \in PersistentTiers) =>
                  /\ redisGet(redis', o.tier, o.id).content = o.input.content
                  /\ redisGet(redis', o.tier, o.id).accessCount = 0
             /\ (MemGetWrite(c) /\ o.tier \in PersistentTiers) =>
                  /\ redisGet(redis', o.tier, o.id).accessCount
                       = recordOf(o.tier, o.id).accessCount + 1
                  /\ redisGet(redis', o.tier, o.id).content
                       = recordOf(o.tier, o.id).content
             /\ (o.op = "get" /\ o.tier \in PersistentTiers
                   /\ memRet'.op = "get" /\ memRet'.entry # NoEntry) =>
                  /\ memRet'.entry.content = redisGet(redis', o.tier, o.id).content
                  /\ memRet'.entry.accessCount
                       = redisGet(redis', o.tier, o.id).accessCount
     /\ \A t \in PersistentTiers, i \in MemIds :
          (hasRecord(t, i) /\ redisGet(redis', t, i) # NoEntry
             /\ ~(\E c \in Callers :
                    MemGetWrite(c) /\ memOps[c].tier = t /\ memOps[c].id = i)) =>
            /\ redisGet(redis', t, i).accessCount = recordOf(t, i).accessCount
            /\ redisGet(redis', t, i).content = recordOf(t, i).content]_vars

\* C13 witness: the second get of a long-term or entity entry has returned
\* the content given to store, and the persisted accessCount is 2.
C13_Witness ==
  /\ memRet.op = "get"
  /\ memRet.tier \in PersistentTiers
  /\ memRet.entry # NoEntry
  /\ memRet.entry.content = ContentBar
  /\ memRet.entry.accessCount = 2
  /\ recordOf(memRet.tier, memRet.id).accessCount = 2

(***************************************************************************)
(* XORNGCore: initialization, memory failures, the memory update.          *)
(***************************************************************************)
\* a call that is rejected as not initialized calls no agent and writes no
\* memory
rejectedUntouched ==
  /\ ret'.outcome = "NotInitialized"
  /\ conns' = conns
  /\ proc' = proc
  /\ redis' = redis

\* C14: process, registerSubAgent, searchMemory and clearMemory fail with a
\* not-initialized error, calling no agent and writing no memory, whenever
\* the system is not initialized (not yet, or shut down); once initialize
\* has completed they do not fail for that reason.
C14_NotInitializedRejected ==
  [][(\/ \E request \in Requests : Process(request)
      \/ \E config \in CoreConfigs : RegisterSubAgent(config)
      \/ SearchMemory
      \/ \E type \in ClearTypes, ok \in BOOLEAN : ClearMemory(type, ok)) =>
       /\ ~isInitialized => rejectedUntouched
       /\ isInitialized => ret'.outcome # "NotInitialized"]_vars

\* C15: a failure of the memory store never makes process fail: a memory
\* search that fails adds no context and the request goes on, a memory write
\* that fails is swallowed and the aggregated response is returned; and when
\* the store was unreachable at initialization, no step writes the store or
\* leaves a tier operation in flight, and every store, search, get and
\* delete that returns has completed without error, get with null and
\* search with no entries.
C15_MemoryFailureTolerated ==
  [][/\ MemorySearchDone(FALSE) =>
          /\ proc'.pc # "idle" => proc'.memoryContext = proc.memoryContext
          /\ ret'.outcome \in {"", "ok"}
     /\ MemoryStoreDone(FALSE) =>
          /\ ret'.op = "process" /\ ret'.outcome = "ok"
          /\ ret'.response.present
     /\ ret'.op = "process" => ret'.outcome \in {"ok", "NotInitialized"}
     /\ (memoryInitialized /\ \A t \in Tiers : ~memClient[t]) =>
          /\ redis' = redis
          /\ memOps' = memOps
          /\ memRet' # memRet =>
               /\ memRet'.op \in {"store", "get", "delete", "search"}
               /\ memRet'.outcome = "ok"
               /\ memRet'.entries = << >>
               /\ memRet'.op = "get" => memRet'.entry = NoEntry]_vars

\* C15 witness: with the store unreachable since initialization, process has
\* returned an aggregated response with a result although its memory write
\* failed.
C15_Witness ==
  /\ memoryInitialized
  /\ \A t \in Tiers : ~memClient[t]
  /\ ret.op = "process"
  /\ ret.outcome = "ok"
  /\ ret.response.present
  /\ ret.response.agentsInvoked = 1
  /\ ret.response.stored = << >>

\* C16: the response of process is returned without waiting for the memory
\* write that follows aggregation: process is never left in flight, its
\* response aggregated and not yet returned, waiting for a memory write.
C16_ResponseNotBlocked ==
  ~(proc.pc = "store" /\ proc.aggregated)

\* the mean confidence of the results is greater than 0.85
meanAbove85(results) ==
  Len(results) > 0 /\ SumConfidence(results) > 85 * Len(results)

\* C17 as stated: each process call that reaches aggregation writes one
\* short-term entry, and a long-term entry if and only if the mean
\* confidence of its results is greater than 0.85.
C17_OneShortTermEntry ==
  (ret.op = "process" /\ ret.response.present) =>
    ret.response.stored =
      IF meanAbove85(ret.response.subAgentResults)
      THEN <<"short-term", "long-term">> ELSE <<"short-term">>

\* C17 amended: each process call that reaches aggregation starts one
\* short-term write, and returns with that entry written unless the write
\* failed; it starts a long-term write only after the short-term write has
\* succeeded, and then if and only if the mean confidence is greater than
\* 0.85; a long-term entry is written only in that case.
C17_WritesAttempted ==
  [][/\ (proc.pc # "store" /\ proc'.pc = "store") =>
          /\ proc'.aggregated
          /\ proc'.storing = "short-term" /\ proc'.stored = << >>
     /\ (ret'.op = "process" /\ ret'.response.present) =>
          /\ ret'.response.stored \in
               {<< >>, <<"short-term">>, <<"short-term", "long-term">>}
          /\ "long-term" \in Range(ret'.response.stored) =>
               meanAbove85(ret'.response.subAgentResults)
          /\ proc.pc # "store" => (~memoryInitialized /\ ret'.response.stored = << >>)
     /\ (MemoryStoreDone(TRUE) /\ proc.storing = "short-term") =>
          /\ memoryInitialized =>
               (proc'.storing = "long-term" <=> meanAbove85(proc.results))
          /\ proc'.storing = "long-term" => proc'.stored = <<"short-term">>
          /\ ret'.op = "process" => ret'.response.stored = <<"short-term">>
     /\ MemoryStoreDone(FALSE) =>
          /\ ret'.op = "process"
          /\ ret'.response.stored = proc.stored]_vars

\* C17 witness: process has returned an aggregated response with a result of
\* confidence 0.8, and has written the short-term entry and no long-term one.
C17_Witness ==
  /\ ret.op = "process"
  /\ ret.response.present
  /\ ret.response.agentsInvoked >= 1
  /\ ~meanAbove85(ret.response.subAgentResults)
  /\ ret.response.stored = <<"short-term">>

(***************************************************************************)
(* MemoryManager.store.                                                    *)
(***************************************************************************)
\* the keys of one tier on the server
tierKeys(r, tier) ==
  CASE tier = "short-term" -> <<r.rec[tier], r.expireAt, r.stmIndex>>
    [] tier = "long-term" -> <<r.rec[tier], r.ltmRelevance, r.ltmTags, r.ltmProject>>
    [] OTHER -> <<r.rec[tier], r.entType, r.entLookup, r.entProject, r.entIndex>>

\* the relevance the caller of store gave, or 0.5 when the caller gave none
relevanceGiven(input) ==
  IF input.relevance = Undefined THEN 50 ELSE input.relevance

\* C18: MemoryManager.store writes the new entry to the one backend its kind
\* names and leaves the other two unchanged; the entry stored and returned
\* has accessCount 0 and the relevance the caller gave, or 0.5 when the
\* caller gave none.
C18_StoreOneBackend ==
  [][\A c \in Callers :
       LET o == memOps[c]
       IN /\ (MemStoreRecord(c) \/ MemStoreIndexes(c)) =>
               \A t \in Tiers \ {o.input.type} : tierKeys(redis', t) = tierKeys(redis, t)
          /\ MemStoreRecord(c) =>
               redisGet(redis', o.input.type, o.id) # NoEntry
          /\ MemStoreIndexes(c) =>
               /\ memRet'.outcome = "ok"
               /\ memRet'.entry.accessCount = 0
               /\ memRet'.entry.relevance = relevanceGiven(o.input)
               /\ redisGet(redis', o.input.type, o.id) = stringify(memRet'.entry)]_vars

(***************************************************************************)
(* Aggregator, weighted strategy.                                          *)
(***************************************************************************)
\* the weighted strategy has answered for a non-empty list of results
weightedAnswered ==
  aggResponse.present /\ aggResponse.strategy = "weighted" /\ aggResults # << >>

\* the weight of the i-th result handed to aggregate
resultWeight(i) ==
  weightOf(aggResults[i],
           maxOf([k \in 1..Len(aggResults) |-> aggResults[k].executionTimeMs], 0))

\* the i-th result has the highest weight
highestWeight(i) == \A j \in 1..Len(aggResults) : resultWeight(i) >= resultWeight(j)

\* C19: for every non-empty list of results, the content aggregate produces
\* under the weighted strategy contains the content of the result with the
\* highest weight as a substring.
C19_HighestWeightIncluded ==
  weightedAnswered =>
    \E i \in 1..Len(aggResults) :
      highestWeight(i) /\ includes(aggResponse.content, aggResults[i].content)

\* two results with different contents, the second one far heavier: the
\* answer is the second one's content alone
C19_Witness ==
  /\ weightedAnswered
  /\ Len(aggResults) = 2
  /\ resultWeight(2) > resultWeight(1)
  /\ aggResults[1].content # aggResults[2].content
  /\ aggResponse.content = aggResults[2].content

\* the scenario: confidences 0.9 and 0.95, execution times 100 ms and 800 ms
twoResultScenario ==
  /\ weightedAnswered
  /\ Len(aggResults) = 2
  /\ {aggResults[1].confidence, aggResults[2].confidence} = {90, 95}
  /\ {aggResults[1].executionTimeMs, aggResults[2].executionTimeMs} = {100, 800}

\* a sequence starts with another
startsWith(s, prefix) == Len(prefix) <= Len(s) /\ SubSeq(s, 1, Len(prefix)) = prefix

\* C20 as stated: in the scenario the result with confidence 0.95 comes first
\* in the output, and the output is that result alone when its weight is at
\* least 80% of the total weight.
C20_HigherConfidenceFirst ==
  twoResultScenario =>
    LET k == CHOOSE i \in 1..2 : aggResults[i].confidence = 95
    IN /\ startsWith(aggResponse.content, aggResults[k].content)
       /\ (10 * resultWeight(k) >= 8 * (resultWeight(1) + resultWeight(2))) =>
            aggResponse.content = aggResults[k].content

\* C20: in the scenario the result that took 100 ms comes first in the
\* output, whichever confidence it has, and the other result follows it after
\* the separator: the first weight is below 80% of the total weight.
C20_FasterResultFirst ==
  twoResultScenario =>
    LET fast == CHOOSE i \in 1..2 : aggResults[i].executionTimeMs = 100
        slow == 3 - fast
    IN /\ resultWeight(fast) > resultWeight(slow)
       /\ 10 * resultWeight(fast) < 8 * (resultWeight(1) + resultWeight(2))
       /\ aggResponse.content =
            aggResults[fast].content \o <<"\n", "\n", "-", "-", "-", "\n", "\n">>
              \o aggResults[slow].content

\* the scenario with confidence 0.9 at 100 ms and confidence 0.95 at 800 ms
C20_Witness ==
  /\ twoResultScenario
  /\ aggResults[1].confidence = 95 /\ aggResults[1].executionTimeMs = 800
  /\ aggResults[2].confidence = 90 /\ aggResults[2].executionTimeMs = 100
  /\ aggResults[1].content # aggResults[2].content
  /\ startsWith(aggResponse.content, aggResults[2].content)

(***************************************************************************)
(* Aggregator, empty result list.                                          *)
(***************************************************************************)
\* C21: for every strategy, aggregate with an empty result list returns the
\* fixed content 'No results available from sub-agents.' with agentsInvoked 0
\* and no sub-agent results, and raises no error.
C21_EmptyResponse ==
  /\ (aggResponse.present /\ aggResults = << >>) =>
       /\ aggResponse.content = <<"No results available from sub-agents.">>
       /\ aggResponse.agentsInvoked = 0
       /\ aggResponse.subAgentResults = << >>
  /\ (aggResponse = NoAggregation /\ aggResults = << >>) =>
       \A strategy \in AggregationStrategies :
         aggregate(aggResults, strategy).present

\* C21 witness: the consensus strategy, whose average divides by the number
\* of results, has answered for the empty list
C21_Witness ==
  /\ aggResponse.present
  /\ aggResults = << >>
  /\ aggResponse.strategy = "consensus"
  /\ aggResponse.content = <<"No results available from sub-agents.">>

(***************************************************************************)
(* The routing scenario: a validator with the capability code-analysis and *)
(* a knowledge agent, and prompts around "review this code for security    *)
(* issues".                                                                *)
(***************************************************************************)
ScenarioProfiles ==
  {[type |-> "validator", capabilities |-> {"code-analysis"}],
   [type |-> "knowledge", capabilities |-> {"documentation-generation"}]}

ScenarioRequests ==
  [prompt : {PromptSecurityReview, PromptPleaseSecurityReview, PromptAuditSecurityReview},
   preferredAgents : {{}},
   excludeAgents : {{}, {"a1"}},
   context : {NoContext},
   includeMemory : {TRUE}]

ScenarioNext ==
  \/ \E profile \in ScenarioProfiles, status \in {"idle", "disconnected"} :
       RouterRegister(profile, status)
  \/ \E request \in ScenarioRequests : RouterRoute(request)

SpecScenario == Init /\ [][ScenarioNext]_vars

\* the agents of the snapshot with the given type
agentsOfType(type) == {a \in Range(routerAgents) : a.type = type}

\* agent A (validator, code-analysis) and agent B (knowledge) are the agents
\* registered, the router sees both as available, and a prompt that contains
\* the phrase was routed with no agent excluded
scenarioRouted ==
  /\ routerRequest # NoRequest
  /\ includes(routerRequest.prompt, PromptSecurityReview)
  /\ routerRequest.excludeAgents = {}
  /\ Len(routerAgents) = 2
  /\ Cardinality(agentsOfType("validator")) = 1
  /\ Cardinality(agentsOfType("knowledge")) = 1
  /\ \A a \in Range(routerAgents) : a.status # "disconnected"

\* the id of agent A
scenarioA == (CHOOSE a \in agentsOfType("validator") : TRUE).id

\* the score of a catalogued intent on the routed prompt
intentScore(intent) ==
  LET k == CHOOSE i \in 1..Len(intentPatterns) : intentPatterns[i].intent = intent
  IN patternScore(toLowerCase(routerRequest.prompt), intentPatterns[k].patterns)

\* C22 as stated: in the scenario the primary intent is security, the primary
\* agents are [A], and the raw prompt is one of the memory queries.
C22_SecurityIntent ==
  scenarioRouted =>
    /\ routerDecision.reasoning.intent = "security"
    /\ routerDecision.primaryAgents = <<scenarioA>>
    /\ [kind |-> "prompt", arg |-> routerRequest.prompt]
         \in Range(routerDecision.memoryQueries)

\* C22: in the scenario the primary intent is code-review, the first intent of
\* the catalog, unless the prompt has more security keywords than code-review
\* keywords, and it is code-review for the prompt "review this code for
\* security issues" itself; the primary agents are [A] either way, by its
\* type, and the raw prompt is one of the memory queries.
C22_CodeReviewIntent ==
  scenarioRouted =>
    /\ (\A k \in 1..Len(intentPatterns) :
          intentPatterns[k].intent \notin {"code-review", "security"} =>
            intentScore(intentPatterns[k].intent) = 0) =>
         routerDecision.reasoning.intent =
           IF intentScore("security") > intentScore("code-review")
           THEN "security" ELSE "code-review"
    /\ routerRequest.prompt = PromptSecurityReview =>
         routerDecision.reasoning.intent = "code-review"
    /\ routerDecision.primaryAgents = <<scenarioA>>
    /\ [kind |-> "prompt", arg |-> routerRequest.prompt]
         \in Range(routerDecision.memoryQueries)

\* C22 witness: B was registered before A, and the prompt "review this code
\* for security issues" was routed to A with the intent code-review
C22_Witness ==
  /\ scenarioRouted
  /\ routerRequest.prompt = PromptSecurityReview
  /\ routerAgents[1].type = "knowledge"
  /\ routerDecision.primaryAgents = <<"a2">>
  /\ routerDecision.reasoning.intent = "code-review"

(***************************************************************************)
(* The status the router reads after a registration.                       *)
(***************************************************************************)
\* the request asks for agents of the given type and does not exclude the id
requestsAgent(request, id, type) ==
  /\ mapIntentToAgentType(classifyIntent(request.prompt).primaryIntent) = type
  /\ id \notin request.excludeAgents

\* C28: after registerAgent has successfully connected a process-attached or
\* network-attached agent, the status the router sees for that agent is idle,
\* so route selects it as a primary agent for a request whose primary intent
\* maps to the agent's type, when the agent is not excluded and fewer than 2
\* other available agents have that type.
C28_ConnectedSeenIdle ==
  \A id \in Ids :
    ret = Returned("registerAgent", id, "ok", "connected") =>
      /\ conns[id].agentStatus = "idle"
      /\ \A request \in Requests :
           requestsAgent(request, id, conns[id].type) =>
             id \in Range(route(request, getAllAgents).primaryAgents)

(***************************************************************************)
(* The relevance a get leaves in the relevance index.                      *)
(***************************************************************************)
\* the step that completes a get of a long-term entry on behalf of caller c
longTermGetDone(c) ==
  /\ memOps[c].op = "get" /\ memOps[c].tier = "long-term" /\ memOps[c].pc = "zadd"
  /\ memOps'[c] = NoMemOp

\* C29: each get of a long-term entry raises its relevance by 0.01 over the
\* value left by the previous get (capped at 1.0) and re-inserts it in the
\* relevance index with that value, so after k gets of an entry stored with
\* relevance r its score in the relevance index is min(1, r + 0.01*k).
\* Relevance is counted in hundredths.
C29_GetRaisesRelevance ==
  [][\A c \in Callers :
       longTermGetDone(c) =>
         redis'.ltmRelevance[memOps[c].id] =
           Min(100, redis.ltmRelevance[memOps[c].id] + 1)]_vars

(***************************************************************************)
(* The expiry of a short-term entry.                                       *)
(***************************************************************************)
\* the entry was stored less than one TTL before the time t
unexpiredAt(entry, t) == t < entry.timestamp.ms + ttlSeconds

\* the step in which a get on behalf of caller c finds a short-term record
shortTermGetFinds(c) ==
  /\ memOps[c].op = "get" /\ memOps[c].tier = "short-term" /\ memOps[c].pc = "read"
  /\ memOps'[c].pc = "write"

\* the step in which a short-term search on behalf of caller c returns
shortTermSearchDone(c) ==
  /\ memOps[c].op = "search" /\ memOps[c].tier = "short-term" /\ memOps[c].pc = "fetch"
  /\ memOps'[c] = NoMemOp

\* the clock advances while caller c has no call in flight
TickBetweenCalls(c) ==
  /\ memOps[c].op = "none"
  /\ Tick

\* the calls of one caller after another on the short-term tier; the clock
\* advances between the calls, so that an entry's timestamp is the time of
\* its SETEX
ExpiryNext ==
  \/ MemoryManagerInitialize(TRUE)
  \/ \E input \in {i \in MemoryInputs : i.type = "short-term"} : MemStore("c1", input)
  \/ MemStoreRecord("c1")
  \/ MemStoreIndexes("c1")
  \/ \E id \in MemIds : MemGet("c1", id, "short-term")
  \/ MemGetRead("c1")
  \/ MemGetWrite("c1")
  \/ \E s \in {x \in SearchCalls : x.tier = "short-term"} :
        MemSearch("c1", s.tier, s.query, s.limit, s.options)
  \/ MemSearchCandidates("c1")
  \/ MemSearchFetch("c1")
  \/ TickBetweenCalls("c1")

SpecExpiry == Init /\ [][ExpiryNext]_vars

\* C30: a short-term entry expires one TTL after it was stored: at any time
\* at or after its store time plus the TTL, neither get nor search returns
\* it, whatever get and search calls were made in between.
C30_ExpiresOneTtlAfterStore ==
  [][\A c \in Callers :
       /\ shortTermGetFinds(c) => unexpiredAt(memOps'[c].entry, now)
       /\ shortTermSearchDone(c) =>
            \A i \in 1..Len(memRet'.entries) : unexpiredAt(memRet'.entries[i], now)]_vars

(***************************************************************************)
(* LearningService: the confidence of a pattern.                           *)
(***************************************************************************)
\* (successCount + 1) / (successCount + failureCount + 2)
smoothedRate(pattern) ==
  <<pattern.successCount + 1, pattern.successCount + pattern.failureCount + 2>>

\* C23: after every recordFixAttempt and every recordPatternFailure, each
\* pattern's confidence equals (successCount + 1) / (successCount +
\* failureCount + 2); in particular a pattern with one success and no failure
\* has confidence 2/3.
C23_ConfidenceIsSmoothedRate ==
  \A i \in DOMAIN fixPatterns :
    /\ ratEq(fixPatterns[i].confidence, smoothedRate(fixPatterns[i]))
    /\ (fixPatterns[i].successCount = 1 /\ fixPatterns[i].failureCount = 0) =>
         ratEq(fixPatterns[i].confidence, <<2, 3>>)

\* the attempt is successful with recorded fixes and has the pattern's id
matches(attempt, pattern) ==
  /\ learns(attempt)
  /\ generatePatternId(attempt.failureType, attempt.errorPattern) = pattern.id

\* C24: for a given pattern, each further successful fix attempt that
\* matches it strictly increases its confidence, each recordPatternFailure
\* strictly decreases it, and the confidence stays strictly between 0 and 1
\* after any sequence of the two.  A successful attempt is one that succeeded
\* with recorded fixes.
C24_ConfidenceMoves ==
  [][/\ \A attempt \in LearningAttempts :
          RecordFixAttempt(attempt) =>
            \A i \in DOMAIN fixPatterns :
              matches(attempt, fixPatterns[i]) =>
                ratLess(fixPatterns[i].confidence, fixPatterns'[i].confidence)
     /\ \A patternId \in FailedPatternIds :
          RecordPatternFailure(patternId) =>
            \A i \in DOMAIN fixPatterns :
              fixPatterns[i].id = patternId =>
                ratLess(fixPatterns'[i].confidence, fixPatterns[i].confidence)
     /\ \A i \in DOMAIN fixPatterns' :
          /\ ratLess(RatZero, fixPatterns'[i].confidence)
          /\ ratLess(fixPatterns'[i].confidence, <<1, 1>>)]_vars

\* C24 witness: a pattern has been reinforced by a second success and has
\* failed twice
C24_Witness ==
  \E i \in DOMAIN fixPatterns :
    fixPatterns[i].successCount = 2 /\ fixPatterns[i].failureCount = 2

(***************************************************************************)
(* LearningService: the pattern id.                                        *)
(***************************************************************************)
\* the text with every run of digits masked
RECURSIVE maskDigits(_)
maskDigits(s) ==
  IF s = << >> THEN << >>
  ELSE IF isDigit(Head(s)) THEN <<"#">> \o maskDigits(drop(s, digitRun(s)))
       ELSE <<Head(s)>> \o maskDigits(Tail(s))

\* the two error texts differ at most in their runs of digits
digitVariants(a, b) == maskDigits(a) = maskDigits(b)

\* C25: the pattern id depends only on the failure type and the error text:
\* two successful attempts of the same failure type whose error texts differ
\* only in line/column numbers or other digit runs get the same pattern id,
\* so the second one reinforces the pattern created by the first instead of
\* creating a new pattern.  A successful attempt is one that succeeded with
\* recorded fixes.
C25_DigitVariantsReinforce ==
  [][\A attempt \in LearningAttempts :
       (RecordFixAttempt(attempt) /\ learns(attempt)) =>
         \A i \in DOMAIN fixPatterns :
           (/\ fixPatterns[i].failureType = attempt.failureType
            /\ digitVariants(fixPatterns[i].errorPattern, attempt.errorPattern)) =>
             /\ generatePatternId(attempt.failureType, attempt.errorPattern) =
                  fixPatterns[i].id
             /\ Len(fixPatterns') = Len(fixPatterns)
             /\ fixPatterns'[i].successCount = fixPatterns[i].successCount + 1
             /\ fixPatterns'[i].errorPattern = fixPatterns[i].errorPattern]_vars

\* C25 witness: the pattern created for a column position and an exit code
\* has been reinforced by an attempt with other numbers in its text
C25_Witness ==
  /\ recordedAttempts # << >>
  /\ recordedAttempts[Len(recordedAttempts)].attempt.errorPattern = TextPosition34Exit13
  /\ \E i \in DOMAIN fixPatterns :
       /\ fixPatterns[i].errorPattern = TextPosition122Exit2
       /\ fixPatterns[i].successCount = 2

(***************************************************************************)
(* LearningService: the attempt log and the learning velocity.             *)
(***************************************************************************)
\* the number of attempts recorded so far
attemptsRecorded == lastSerial(recordedAttempts)

\* how many of the attempts recorded with the serial numbers lo..hi were
\* successful
RECURSIVE successesIn(_, _, _)
successesIn(history, lo, hi) ==
  IF history = << >> THEN 0
  ELSE LET from == Max(lo, Head(history).first)
           to == Min(hi, Head(history).last)
       IN (IF Head(history).attempt.successful /\ from <= to THEN to - from + 1 ELSE 0)
            + successesIn(Tail(history), lo, hi)

\* the success rate of the attempts with the serial numbers lo..hi
rateOf(lo, hi) == <<successesIn(recordedAttempts, lo, hi), hi - lo + 1>>

\* C26: after recordFixAttempt, learningVelocity is exactly 0 while fewer
\* than 20 attempts are recorded; with 20 or more, over the most recent at
\* most 100 attempts split at the middle (first half = floor of half the
\* window), it equals the success rate of the second half minus the success
\* rate of the first half, so with exactly 20 attempts it is rate(attempts
\* 11-20) minus rate(attempts 1-10).
C26_LearningVelocity ==
  LET total == attemptsRecorded
      window == Min(100, total)
      start == total - window + 1
      middle == start + (window \div 2)
  IN /\ total < 20 => metrics.learningVelocity[1] = 0
     /\ total >= 20 =>
          ratEq(metrics.learningVelocity,
                ratMinus(rateOf(middle, total), rateOf(start, middle - 1)))
     /\ total = 20 =>
          ratEq(metrics.learningVelocity, ratMinus(rateOf(11, 20), rateOf(1, 10)))

\* C26 witness: with 101 attempts recorded, the oldest one a failure outside
\* the window, the velocity is not 0
C26_Witness ==
  /\ attemptsRecorded = 101
  /\ ~recordedAttempts[1].attempt.successful
  /\ metrics.learningVelocity[1] # 0

\* the run of the history that holds the serial number
historyAt(serial) ==
  CHOOSE i \in DOMAIN recordedAttempts :
    recordedAttempts[i].first <= serial /\ serial <= recordedAttempts[i].last

\* C27: after any sequence of recordFixAttempt calls the attempt log holds at
\* most 10,000 records, and they are the most recently recorded attempts in
\* recording order: when the cap is exceeded the oldest records are the ones
\* dropped.
C27_LogKeepsMostRecent ==
  /\ logLength(fixAttempts) = Min(10000, attemptsRecorded)
  /\ fixAttempts # << >> =>
       /\ fixAttempts[1].first = attemptsRecorded - logLength(fixAttempts) + 1
       /\ fixAttempts[Len(fixAttempts)].last = attemptsRecorded
  /\ \A i \in DOMAIN fixAttempts :
       /\ fixAttempts[i].first <= fixAttempts[i].last
       /\ i > 1 => fixAttempts[i].first = fixAttempts[i - 1].last + 1
       /\ historyAt(fixAttempts[i].first) = historyAt(fixAttempts[i].last)
       /\ recordedAttempts[historyAt(fixAttempts[i].first)].attempt = fixAttempts[i].attempt

\* C27 witness: more than 10,000 attempts have been recorded, the first of
\* them a success and the last ones failures, and the log begins after the
\* first
C27_Witness ==
  /\ attemptsRecorded > 10000
  /\ recordedAttempts[1].attempt.successful
  /\ fixAttempts[1].first > 1
  /\ ~fixAttempts[Len(fixAttempts)].attempt.successful

(***************************************************************************)
(* Long-term search: the filters and the candidates.                       *)
(***************************************************************************)
\* a long-term search has returned
longTermSearched ==
  memRet.op = "search" /\ memRet.tier = "long-term" /\ memRet.outcome = "ok"

\* C31: every entry returned by a long-term search called with a tags filter
\* carries all the requested tags, whichever index supplied the candidates
\* and also when a projectId filter is given in the same call; every entry
\* returned by a search with a projectId filter belongs to that project.
C31_FiltersHold ==
  longTermSearched =>
    \A i \in DOMAIN memRet.entries :
      /\ memRet.options.tags \subseteq memRet.entries[i].tags
      /\ memRet.options.projectId # "" =>
           memRet.entries[i].projectId = memRet.options.projectId

\* the ids of the long-term entries the store holds
longTermStored == {i \in KeyIds : redis.rec["long-term"][i] # NoEntry}

\* fewer than limit other stored entries are at least as relevant as entry i
amongMostRelevant(i, limit) ==
  Cardinality({j \in longTermStored \ {i} :
                 redis.rec["long-term"][j].relevance >=
                   redis.rec["long-term"][i].relevance}) < limit

\* the content of the entry contains the query
matchesQuery(entry, query) == includes(toLowerCase(entry.content), toLowerCase(query))

\* C32: with no project and no tag filter, a long-term search takes its
\* candidates from the entries with the highest relevance (the top 3*limit of
\* the relevance-ranked set), so when more than 3*limit entries are stored, a
\* matching entry that is among the limit most relevant entries is returned.
C32_MostRelevantReturned ==
  (/\ longTermSearched
   /\ memRet.options = NoOptions
   /\ Cardinality(longTermStored) > 3 * memRet.limit) =>
    \A i \in longTermStored :
      (/\ matchesQuery(redis.rec["long-term"][i], memRet.query)
       /\ amongMostRelevant(i, memRet.limit)) =>
        \E k \in DOMAIN memRet.entries : memRet.entries[k].id = i

(***************************************************************************)
(* The entity tier: the lookup by entity id.                               *)
(***************************************************************************)
\* the ids of the entity entries stored and not deleted that carry entity e
entriesOfEntity(e) ==
  {i \in KeyIds : redis.rec["entity"][i] # NoEntry /\ redis.rec["entity"][i].entityId = e}

\* C33: in the entity tier, after any sequence of store and delete,
\* getByEntityId(e) returns an entry whose entityId is e whenever at least
\* one stored and not deleted entry has entityId e, and returns nothing only
\* when no such entry exists.
C33_LookupFindsEntity ==
  (memRet.op = "getByEntityId" /\ memRet.outcome = "ok") =>
    /\ entriesOfEntity(memRet.entityId) # {} =>
         (memRet.entry # NoEntry /\ memRet.entry.entityId = memRet.entityId)
    /\ memRet.entry = NoEntry => entriesOfEntity(memRet.entityId) = {}

\* the routed request's classification, and the available agents of the
\* snapshot that have the mapped type of one of its secondary intents and
\* were not returned as primary agents
routedClassification == classifyIntent(routerRequest.prompt)

secondaryEligible ==
  {a \in Range(routerAgents) :
     /\ a.id \notin routerRequest.excludeAgents
     /\ a.status # "disconnected"
     /\ \E k \in DOMAIN routedClassification.secondaryIntents :
          a.type = mapIntentToAgentType(routedClassification.secondaryIntents[k])
     /\ a.id \notin Range(routerDecision.primaryAgents)}

\* C34: when the routed request has secondary intents, the secondary agents
\* are at most 2 eligible agents (available, of a secondary intent's mapped
\* type, not selected as primary), and an eligible agent is left out only when
\* 2 secondary agents are already chosen; this also for an agent of the primary
\* type and also when the primaries came from the capability fallback.
C34_SecondaryOnlyCapped ==
  (routerRequest # NoRequest /\ Len(routedClassification.secondaryIntents) > 0) =>
    /\ Len(routerDecision.secondaryAgents) <= 2
    /\ \A id \in Range(routerDecision.secondaryAgents) :
         \E a \in secondaryEligible : a.id = id
    /\ \A a \in secondaryEligible :
         \/ a.id \in Range(routerDecision.secondaryAgents)
         \/ Len(routerDecision.secondaryAgents) = 2

\* the available agents of the snapshot, and those of them eligible as primary
\* agents of the routed request: the agents of the primary type or, when none
\* is available, the agents with one of the required capabilities
routedAvailable ==
  {a \in Range(routerAgents) :
     a.id \notin routerRequest.excludeAgents /\ a.status # "disconnected"}

primaryEligible ==
  LET primaryType == mapIntentToAgentType(routedClassification.primaryIntent)
      ofType == {a \in routedAvailable : a.type = primaryType}
  IN IF ofType # {} THEN ofType
     ELSE {a \in routedAvailable :
             \E k \in DOMAIN routedClassification.requiredCapabilities :
               routedClassification.requiredCapabilities[k] \in a.capabilities}

preferredEligible == {a \in primaryEligible : a.id \in routerRequest.preferredAgents}

\* C35: among the agents eligible as primary, by type or by the capability
\* fallback, the caller-preferred ones are selected before the others: a
\* non-preferred agent is a primary agent only if fewer than 2 preferred
\* eligible agents exist, and a preferred eligible agent is left out only when
\* 2 preferred agents are the primary agents.
C35_PreferredFirst ==
  routerRequest # NoRequest =>
    LET primary == Range(routerDecision.primaryAgents)
    IN /\ \A id \in primary \ routerRequest.preferredAgents :
            Cardinality(preferredEligible) < 2
       /\ \A a \in preferredEligible :
            \/ a.id \in primary
            \/ Cardinality(primary \cap routerRequest.preferredAgents) = 2

(***************************************************************************)
(* The two copies of an agent's status.                                    *)
(***************************************************************************)
\* C37: in every reachable state, the status of each registered agent as
\* getAllAgents returns it (the one the router reads) equals the status of
\* that agent's connection (the one callTool checks and updates).
C37_StatusCopiesAgree ==
  \A k \in DOMAIN getAllAgents :
    getAllAgents[k].status = conns[getAllAgents[k].id].status

(***************************************************************************)
(* The status of a connection with tool calls in flight.                   *)
(***************************************************************************)
\* C38: when tool calls overlap on one connection, its status is busy for as
\* long as at least one of them is in flight: a call that settles while
\* another call on the connection is still in flight leaves the status busy.
C38_BusyWhileInFlight ==
  [][\A id \in Ids :
       ((\E ok \in BOOLEAN : CallToolDone(id, ok)) /\ conns'[id].directCalls > 0)
         => conns'[id].status = "busy"]_vars

(***************************************************************************)
(* The access count under overlapping gets.                                *)
(***************************************************************************)
\* C39: overlapping get calls on one long-term or entity entry lose no
\* access-count update: every get that completes raises the persisted
\* accessCount of its entry by one, whatever the order of the reads and writes
\* of the callers, so that n completed gets leave the initial count plus n.
C39_NoLostAccessUpdate ==
  [][\A c \in Callers :
       MemGetWrite(c) =>
         redis'.rec[memOps[c].tier][memOps[c].id].accessCount =
           redis.rec[memOps[c].tier][memOps[c].id].accessCount + 1]_vars

(***************************************************************************)
(* What findSimilarPatterns returns.                                       *)
(***************************************************************************)
\* C36: findSimilarPatterns returns at most limit patterns, all of the
\* requested failure type and in non-increasing score order, and none of them
\* is a locally held pattern whose confidence is below the minimum confidence.
C36_RankedAndFiltered ==
  similar.called =>
    /\ Len(similar.ranked) <= similar.limit
    /\ \A k \in DOMAIN similar.ranked :
         /\ similar.ranked[k].pattern.failureType = similar.failureType
         /\ k > 1 => ~ratLess(similar.ranked[k - 1].score, similar.ranked[k].score)
         /\ \A i \in DOMAIN similar.patterns :
              similar.patterns[i].id = similar.ranked[k].pattern.id
                => ~ratLess(similar.patterns[i].confidence, MinPatternConfidence)

\* C40: the list findSimilarPatterns returns never holds two patterns with
\* the same pattern id, also when long-term memory holds several records of
\* one pattern that is not held locally.
C40_NoDuplicateIds ==
  similar.called =>
    \A j, k \in DOMAIN similar.ranked :
      similar.ranked[j].pattern.id = similar.ranked[k].pattern.id => j = k

\* C36 witness: findSimilarPatterns has returned a locally held pattern of
\* the requested type and left out another one, similar enough to the error
\* and of the requested type, whose confidence a pattern failure has brought
\* below the minimum, although long-term memory holds the record of it with
\* the relevance 0.9.
C36_Witness ==
  /\ similar.called
  /\ \E k \in DOMAIN similar.ranked, i \in DOMAIN similar.patterns :
       similar.patterns[i] = similar.ranked[k].pattern
  /\ \E i \in DOMAIN similar.patterns :
       /\ similar.patterns[i].failureType = similar.failureType
       /\ ratLess(similar.patterns[i].confidence, MinPatternConfidence)
       /\ ratLess(MinSimilarity,
                  calculateSimilarity(similar.errorPattern, similar.patterns[i].errorPattern))
       /\ \A k \in DOMAIN similar.ranked :
            similar.ranked[k].pattern.id # similar.patterns[i].id
       /\ \E id \in KeyIds :
            /\ redis.rec["long-term"][id] # NoEntry
            /\ memoryCandidate(redis.rec["long-term"][id]).pattern.id = similar.patterns[i].id

=============================================================================
